---- MODULE Spec2Model ----
(***************************************************************************)
(* A model of the encoding toolkit: the character ciphers of               *)
(* encoding/ciphers, and Pipeline, Salt and StructuredDataEncoder of        *)
(* encoding/utils.py.                                                       *)
(*                                                                          *)
(* A text is a sequence of code points.  A call that can raise returns a    *)
(* record [exc, val]: exc = "none" and val the returned value, or exc the   *)
(* name of the exception raised.  A Python value is a record [t, v] of its  *)
(* type and its payload; t is written first throughout, so that TLC, which  *)
(* compares records field by field in the order it met the field names,    *)
(* tells values of different types apart by t alone.                        *)
(***************************************************************************)
EXTENDS Integers, Sequences, FiniteSets, TLC

VARIABLES
    encoders,        \* Pipeline.encoders: the list of steps
    encoder_names,   \* Pipeline.encoder_names
    constructed,     \* whether Pipeline.__init__ has returned normally
    last_op,         \* the Pipeline operation called last
    last_arg,        \* its argument
    raised,          \* whether it raised
    pre_encoders,    \* encoders before the last operation
    pre_names,       \* encoder_names before the last operation
    undo_of,         \* set by a remove_encoders that names exactly the steps of
                     \* the add_encoders just before it: the state before that add
    cipher,          \* the text encoder under test
    text,            \* the text given to it
    enc_text,        \* what encode(text) returned or raised
    dec_text,        \* what decode returned or raised
    pc,              \* which call of the scenario has been made
    data,            \* the value given to StructuredDataEncoder.encode
    enc_data,        \* what encode(data) returned or raised
    dec_data,        \* what decode of that returned or raised
    rng,             \* the state of the generator of the random module, which
                     \* the whole process shares
    salt,            \* the Salt instance under observation
    other,           \* another Salt instance of the same process
    salt_call,       \* the last call made on salt: its name, argument, result
    salt_ref,        \* an earlier call made on salt, kept for comparison
    attrs,           \* the attributes cipher's methods write during a call:
                     \* final_key, rf_arr or txt_arr, and for a Pipeline those
                     \* of each step's encoder
    ref_call,        \* an earlier call made on cipher, kept for comparison
    lists,           \* the list objects of a caller that builds Pipelines
                     \* from one list: their contents, by identity
    pipelines,       \* the Pipeline objects of that caller: the identity of
                     \* the list self.encoders refers to, and encoder_names
    passed           \* the steps of the caller's list when the caller made it

vars == <<encoders, encoder_names, constructed, last_op, last_arg, raised,
          pre_encoders, pre_names, undo_of, cipher, text, enc_text, dec_text, pc,
          data, enc_data, dec_data, rng, salt, other, salt_call, salt_ref,
          attrs, ref_call, lists, pipelines, passed>>

pipeVars == <<encoders, encoder_names, constructed, last_op, last_arg, raised,
              pre_encoders, pre_names, undo_of>>

textVars == <<cipher, text, enc_text, dec_text, pc>>

dataVars == <<data, enc_data, dec_data>>

saltVars == <<rng, salt, other, salt_call, salt_ref>>

callVars == <<attrs, ref_call>>

heapVars == <<lists, pipelines, passed>>

-----------------------------------------------------------------------------
(* Bounds of the model *)

MaxLen == 3          \* longest text given to a cipher
MaxShift == 97       \* Caesar shifts range over -MaxShift..MaxShift
MaxSteps == 3        \* longest step list a Pipeline grows to
MaxArgs == 1         \* longest step list passed to a Pipeline operation
MaxNames == 2        \* longest name list passed to remove_encoders

-----------------------------------------------------------------------------
(* Results of calls and Python helpers *)

Ok(result) == [exc |-> "none", val |-> result]

Raise(e) == [exc |-> e, val |-> <<>>]

SeqsUpTo(S, n) == UNION {[1..k -> S] : k \in 0..n}

\* chr(n): defined on 0..0x10FFFF, ValueError elsewhere (here: ChrError)
ChrError == -1

Chr(n) == IF 0 <= n /\ n <= 1114111 THEN n ELSE ChrError

\* a text built character by character, each by chr(): the first failing
\* chr() raises ValueError
Built(chars) ==
    IF \E i \in 1..Len(chars) : chars[i] = ChrError
    THEN Raise("ValueError")
    ELSE Ok(chars)

\* the guard every cipher's encode and decode starts with:
\*     if not any(32 <= ord(char) <= 126 for char in text): raise ValueError
any_printable(t) == \E i \in 1..Len(t) : 32 <= t[i] /\ t[i] <= 126

-----------------------------------------------------------------------------
(* CaesarCipher *)

CaesarCipher_encode_char(shift, alpha_only, ascii_val) ==
    IF alpha_only
    THEN LET char_value == ascii_val + shift
         IN  IF 65 <= ascii_val /\ ascii_val <= 90
             THEN (IF char_value <= 90 THEN Chr(char_value) ELSE Chr(char_value - 26))
             ELSE IF 97 <= ascii_val /\ ascii_val <= 122
             THEN (IF char_value <= 122 THEN Chr(char_value) ELSE Chr(char_value - 26))
             ELSE ascii_val
    ELSE Chr(((ascii_val - 32 + shift) % 95) + 32)

CaesarCipher_encode(shift, alpha_only, t) ==
    IF t = <<>> THEN Ok(t)
    ELSE IF ~any_printable(t) THEN Raise("ValueError")
    ELSE Built([i \in 1..Len(t) |-> CaesarCipher_encode_char(shift, alpha_only, t[i])])

\* the mutant: the shift taken off and wrapped once, not reduced modulo 95
CaesarCipher_decode_char_one_wrap(shift, alpha_only, ascii_val) ==
    IF alpha_only
    THEN ascii_val
    ELSE IF ascii_val - shift < 32 THEN Chr(ascii_val - shift + 95)
         ELSE IF ascii_val - shift > 126 THEN Chr(ascii_val - shift - 95)
         ELSE Chr(ascii_val - shift)

CaesarCipher_decode_char(shift, alpha_only, ascii_val) ==
    IF alpha_only
    THEN LET char_val == ascii_val - shift
         IN  IF 65 <= ascii_val /\ ascii_val <= 90
             THEN (IF char_val >= 65 THEN Chr(char_val) ELSE Chr(char_val + 26))
             ELSE IF 97 <= ascii_val /\ ascii_val <= 122
             THEN (IF char_val >= 97 THEN Chr(char_val) ELSE Chr(char_val + 26))
             ELSE ascii_val
    ELSE Chr(((ascii_val - 32 - shift) % 95) + 32)

CaesarCipher_decode(shift, alpha_only, t) ==
    IF t = <<>> THEN Ok(t)
    ELSE IF ~any_printable(t) THEN Raise("ValueError")
    ELSE Built([i \in 1..Len(t) |-> CaesarCipher_decode_char(shift, alpha_only, t[i])])

-----------------------------------------------------------------------------
(* AtbashCipher *)

\* the mutant: the full range reflected one place off
AtbashCipher_encode_char_off_by_one(alpha_only, ascii_val) ==
    IF alpha_only
    THEN IF 65 <= ascii_val /\ ascii_val <= 90 THEN Chr(155 - ascii_val)
         ELSE IF 97 <= ascii_val /\ ascii_val <= 122 THEN Chr(219 - ascii_val)
         ELSE ascii_val
    ELSE Chr(127 - (ascii_val - 32))

AtbashCipher_encode_char(alpha_only, ascii_val) ==
    IF alpha_only
    THEN IF 65 <= ascii_val /\ ascii_val <= 90 THEN Chr(155 - ascii_val)
         ELSE IF 97 <= ascii_val /\ ascii_val <= 122 THEN Chr(219 - ascii_val)
         ELSE ascii_val
    ELSE Chr(126 - (ascii_val - 32))

AtbashCipher_encode(alpha_only, t) ==
    IF t = <<>> THEN Ok(t)
    ELSE IF ~any_printable(t) THEN Raise("ValueError")
    ELSE Built([i \in 1..Len(t) |-> AtbashCipher_encode_char(alpha_only, t[i])])

\* a decode without the early return of the empty text
AtbashCipher_decode_no_early_return(alpha_only, t) ==
    IF ~any_printable(t) THEN Raise("ValueError")
    ELSE AtbashCipher_encode(alpha_only, t)

AtbashCipher_decode(alpha_only, t) ==
    IF t = <<>> THEN Ok(t)
    ELSE IF ~any_printable(t) THEN Raise("ValueError")
    ELSE AtbashCipher_encode(alpha_only, t)

-----------------------------------------------------------------------------
(* str methods on the ASCII characters the model uses *)

IsUpper(c) == 65 <= c /\ c <= 90

IsLower(c) == 97 <= c /\ c <= 122

IsAlpha(c) == IsUpper(c) \/ IsLower(c)

Upper(c) == IF IsLower(c) THEN c - 32 ELSE c

Lower(c) == IF IsUpper(c) THEN c + 32 ELSE c

-----------------------------------------------------------------------------
(* AffineCipher *)

\* the loop of AffineCipher.__coprime: while b != 0: a, b = b, a % b
RECURSIVE coprime_loop(_, _)
coprime_loop(a, b) == IF b = 0 THEN a ELSE coprime_loop(b, a % b)

\* the mutant: full mode tested against 128, the number the message names
AffineCipher_coprime_128(key_a, alpha_only) ==
    coprime_loop(key_a, IF alpha_only THEN 26 ELSE 128) = 1

AffineCipher_coprime(key_a, alpha_only) ==
    coprime_loop(key_a, IF alpha_only THEN 26 ELSE 95) = 1

\* AffineCipher.__init__: whether it raises
AffineCipher_init_raises(key_a, alpha_only) ==
    \/ ~(0 <= key_a /\ key_a <= 26) /\ alpha_only
    \/ ~(0 <= key_a /\ key_a <= 127) /\ ~alpha_only
    \/ ~AffineCipher_coprime(key_a, alpha_only)

\* the mutant: the scan stops one short of m - 1
AffineCipher_mod_inverse_short(key_a, m) ==
    IF \E i \in 1..(m - 2) : (key_a * i) % m = 1
    THEN CHOOSE i \in 1..(m - 2) :
            /\ (key_a * i) % m = 1
            /\ \A k \in 1..(i - 1) : (key_a * k) % m # 1
    ELSE 0

\* AffineCipher.__mod_inverse: the first i of range(1, m) with
\* (key_a * i) % m == 1, or None (here 0: the caller tests "not key_inv")
AffineCipher_mod_inverse(key_a, m) ==
    IF \E i \in 1..(m - 1) : (key_a * i) % m = 1
    THEN CHOOSE i \in 1..(m - 1) :
            /\ (key_a * i) % m = 1
            /\ \A k \in 1..(i - 1) : (key_a * k) % m # 1
    ELSE 0

\* an encoding of the full range that reduces modulo 128
AffineCipher_encode_char_mod_128(key_a, key_b, alpha_only, ascii_val) ==
    IF alpha_only
    THEN ascii_val
    ELSE Chr(((key_a * (ascii_val - 32) + key_b) % 128) + 32)

AffineCipher_encode_char(key_a, key_b, alpha_only, ascii_val) ==
    IF alpha_only
    THEN IF IsAlpha(ascii_val)
         THEN LET x == IF IsUpper(ascii_val) THEN ascii_val - 65 ELSE ascii_val - 97
                  rep_letter == Chr(((key_a * (x - 0) + key_b) % 26) + 65)
              IN  IF IsLower(ascii_val) THEN Lower(rep_letter) ELSE Upper(rep_letter)
         ELSE ascii_val
    ELSE Chr(((key_a * (ascii_val - 32) + key_b) % 95) + 32)

AffineCipher_encode(key_a, key_b, alpha_only, t) ==
    IF t = <<>> THEN Ok(t)
    ELSE IF ~any_printable(t) THEN Raise("ValueError")
    ELSE Built([i \in 1..Len(t) |->
                   AffineCipher_encode_char(key_a, key_b, alpha_only, t[i])])

\* one character of decode; ChrError also stands for the ValueError raised
\* when no inverse was found
AffineCipher_decode_char(key_a, key_b, alpha_only, ascii_val) ==
    IF alpha_only /\ ~IsAlpha(ascii_val)
    THEN ascii_val
    ELSE LET m == IF alpha_only THEN 26 ELSE 95
             key_inv == AffineCipher_mod_inverse(key_a, m)
         IN  IF key_inv = 0 THEN ChrError
             ELSE IF alpha_only
             THEN LET x == IF IsUpper(ascii_val) THEN ascii_val - 65 ELSE ascii_val - 97
                      rep_letter == Chr(((key_inv * (x - 0 - key_b)) % m) + 0)
                  IN  IF IsUpper(ascii_val) THEN Chr(rep_letter + 65)
                      ELSE Chr(rep_letter + 97)
             ELSE Chr(((key_inv * (ascii_val - 32 - key_b)) % m) + 32)

AffineCipher_decode(key_a, key_b, alpha_only, t) ==
    IF t = <<>> THEN Ok(t)
    ELSE IF ~any_printable(t) THEN Raise("ValueError")
    ELSE Built([i \in 1..Len(t) |->
                   AffineCipher_decode_char(key_a, key_b, alpha_only, t[i])])

-----------------------------------------------------------------------------
(* VigenereCipher *)

\* VigenereCipher.__generate_matrix: row i is "A".."Z" rolled left by i
VigenereCipher_matrix(i, j) == 65 + ((j + i) % 26)

\* the mutant: the repeated key as it was given, not upper-cased
VigenereCipher_final_key_as_given(key, i) == key[(i % Len(key)) + 1]

\* (self.key * (len(text) // len(self.key) + 1)).upper(), at 0-based index i
VigenereCipher_final_key(key, i) == Upper(key[(i % Len(key)) + 1])

\* one character of encode; ChrError also stands for the ValueError raised
\* for a key character that is no letter
VigenereCipher_encode_char(key, alpha_only, t, i) ==
    LET c == t[i + 1]
        k == VigenereCipher_final_key(key, i)
    IN  IF alpha_only
        THEN IF IsAlpha(k)
             THEN IF IsUpper(c) THEN VigenereCipher_matrix(c - 65, Upper(k) - 65)
                  ELSE IF IsLower(c)
                  THEN Lower(VigenereCipher_matrix(c - 97, Lower(k) - 97))
                  ELSE c
             ELSE ChrError
        ELSE Chr((((c - 32) + (k - 32)) % 95) + 32)

VigenereCipher_encode(key, alpha_only, t) ==
    IF t = <<>> THEN Ok(t)
    ELSE IF ~any_printable(t) THEN Raise("ValueError")
    ELSE Built([i \in 1..Len(t) |-> VigenereCipher_encode_char(key, alpha_only, t, i - 1)])

\* the row the loop "for j in range(len(matrix))" stops at: the first whose
\* entry in the key's column is the letter, or the last row
VigenereCipher_row(index, letter) ==
    IF \E j \in 0..25 : VigenereCipher_matrix(j, index) = letter
    THEN CHOOSE j \in 0..25 :
            /\ VigenereCipher_matrix(j, index) = letter
            /\ \A h \in 0..(j - 1) : VigenereCipher_matrix(h, index) # letter
    ELSE 25

VigenereCipher_decode_char(key, alpha_only, t, i) ==
    LET c == t[i + 1]
        k == VigenereCipher_final_key(key, i)
    IN  IF alpha_only
        THEN IF ~IsAlpha(k) THEN ChrError
             ELSE LET j == VigenereCipher_row(k - 65, Upper(c))
                  IN  IF IsUpper(c) THEN VigenereCipher_matrix(j, 0)
                      ELSE IF IsLower(c) THEN Lower(VigenereCipher_matrix(j, 0))
                      ELSE c
        ELSE Chr((((c - 32) - (k - 32)) % 95) + 32)

VigenereCipher_decode(key, alpha_only, t) ==
    IF t = <<>> THEN Ok(t)
    ELSE IF ~any_printable(t) THEN Raise("ValueError")
    ELSE Built([i \in 1..Len(t) |-> VigenereCipher_decode_char(key, alpha_only, t, i - 1)])

-----------------------------------------------------------------------------
(* RailFenceCipher.  rf_arr[i][j], 0-based, is a string of at most one
   character: <<>> is the '' np.zeros fills the array with *)

\* np.zeros((rows, cols), dtype='<U1')
np_zeros(rows, cols) == [i \in 0..(rows - 1) |-> [j \in 0..(cols - 1) |-> <<>>]]

\* the rows of an array joined in order, each from left to right
RECURSIVE flatten_from(_, _, _, _)
flatten_from(arr, rows, cols, p) ==
    IF p >= rows * cols THEN <<>>
    ELSE arr[p \div cols][p % cols] \o flatten_from(arr, rows, cols, p + 1)

flatten(arr, rows, cols) == flatten_from(arr, rows, cols, 0)

\* the mutant: no turn at the last rail
zig_zag_dir_no_turn(rails, i, i_increasing) ==
    IF i = 0 THEN TRUE ELSE i_increasing

\* the direction RailFenceCipher.__zig_zag takes at rail i
zig_zag_dir(rails, i, i_increasing) ==
    IF i = rails - 1 THEN FALSE ELSE IF i = 0 THEN TRUE ELSE i_increasing

\* RailFenceCipher.__zig_zag(mode='fill', text=t) from rail i, column j: the
\* array it leaves in rf_arr
RECURSIVE zig_zag_fill(_, _, _, _, _, _, _)
zig_zag_fill(rf_arr, rails, cols, t, i, j, i_increasing) ==
    LET inc == zig_zag_dir(rails, i, i_increasing)
        i2 == IF inc THEN i + 1 ELSE i - 1
        filled == [rf_arr EXCEPT ![i][j] = <<t[j + 1]>>]
    IN  IF j >= Len(t) THEN rf_arr
        ELSE IF i2 >= rails \/ j + 1 >= cols THEN filled
        ELSE zig_zag_fill(filled, rails, cols, t, i2, j + 1, inc)

\* RailFenceCipher.__zig_zag(mode='get') from rail i, column j, text so far
\* acc: the text collected when the loop breaks
RECURSIVE zig_zag_get(_, _, _, _, _, _, _)
zig_zag_get(rf_arr, rails, cols, acc, i, j, i_increasing) ==
    LET inc == zig_zag_dir(rails, i, i_increasing)
        i2 == IF inc THEN i + 1 ELSE i - 1
        got == acc \o rf_arr[i][j]
    IN  IF i2 >= rails \/ j + 1 >= cols THEN got
        ELSE zig_zag_get(rf_arr, rails, cols, got, i2, j + 1, inc)

RailFenceCipher_encode(rails, t) ==
    IF t = <<>> THEN Ok(t)
    ELSE IF ~any_printable(t) THEN Raise("ValueError")
    ELSE LET rf_arr == zig_zag_fill(np_zeros(rails, Len(t)), rails, Len(t), t, 0, 0, TRUE)
         IN  Ok(flatten(rf_arr, rails, Len(t)))

\* the pass of decode over the cells in row order from cell p: a cell
\* holding "*" takes the next character of the text
RECURSIVE decode_pass(_, _, _, _, _, _)
decode_pass(rf_arr, rails, cols, t, p, text_index) ==
    IF p >= rails * cols THEN rf_arr
    ELSE IF rf_arr[p \div cols][p % cols] = <<42>>
    THEN decode_pass([rf_arr EXCEPT ![p \div cols][p % cols] = <<t[text_index + 1]>>],
                     rails, cols, t, p + 1, text_index + 1)
    ELSE decode_pass(rf_arr, rails, cols, t, p + 1, text_index)

\* __zig_zag ends with "if text: return text": an empty result is None
RailFenceCipher_decode(rails, t) ==
    IF t = <<>> THEN Ok(t)
    ELSE IF ~any_printable(t) THEN Raise("ValueError")
    ELSE LET stars == [k \in 1..Len(t) |-> 42]
             marked == zig_zag_fill(np_zeros(rails, Len(t)), rails, Len(t), stars, 0, 0, TRUE)
             rf_arr == decode_pass(marked, rails, Len(t), t, 0, 0)
             dec_text_ == zig_zag_get(rf_arr, rails, Len(t), <<>>, 0, 0, TRUE)
         IN  IF dec_text_ = <<>> THEN Raise("returned None") ELSE Ok(dec_text_)

-----------------------------------------------------------------------------
(* ColumnarTranspositionCipher.  key and filler are strings *)

\* ColumnarTranspositionCipher.__is_unique
ColumnarTranspositionCipher_is_unique(t) ==
    \A i \in 1..(Len(t) - 1) : \A k \in (i + 1)..Len(t) : t[k] # t[i]

\* the inner loop of ColumnarTranspositionCipher.__get_order_list for the
\* letter i, from position j (0-based): the list and the next rank after it
RECURSIVE order_positions(_, _, _, _)
order_positions(lst, order, i, j) ==
    IF j >= Len(lst) THEN [lst |-> lst, order |-> order]
    ELSE IF lst[j + 1] = i
         THEN order_positions([lst EXCEPT ![j + 1] = order], order + 1, i, j + 1)
         ELSE order_positions(lst, order, i, j + 1)

\* its outer loop, for i in range(65, 91), from the letter i
RECURSIVE order_letters(_, _, _)
order_letters(lst, order, i) ==
    IF i > 90 THEN lst
    ELSE LET r == order_positions(lst, order, i, 0)
         IN  order_letters(r.lst, r.order, i + 1)

ColumnarTranspositionCipher_get_order_list(key) == order_letters(key, 0, 65)

UpperText(t) == [i \in 1..Len(t) |-> Upper(t[i])]

\* what a cell of dtype '<U1' keeps of a string assigned to it
U1(str) == IF str = <<>> THEN <<>> ELSE <<str[1]>>

\* column j of the array, top to bottom
RECURSIVE column_from(_, _, _, _)
column_from(arr, rows, j, i) ==
    IF i >= rows THEN <<>> ELSE arr[i][j] \o column_from(arr, rows, j, i + 1)

\* the two loops of encode over the order list, from rank i and column j
RECURSIVE emit_columns(_, _, _, _, _)
emit_columns(arr, rows, order_list, i, j) ==
    IF i >= Len(order_list) THEN <<>>
    ELSE IF j >= Len(order_list) THEN emit_columns(arr, rows, order_list, i + 1, 0)
    ELSE (IF order_list[j + 1] = i THEN column_from(arr, rows, j, 0) ELSE <<>>)
         \o emit_columns(arr, rows, order_list, i, j + 1)

\* math.ceil(a / b) for the lengths the model reaches
ceil_div(a, b) == (a + b - 1) \div b

ColumnarTranspositionCipher_encode(key, filler, t) ==
    IF t = <<>> THEN Ok(t)
    ELSE IF ~any_printable(t) THEN Raise("ValueError")
    ELSE IF Len(key) = 0 THEN Raise("ZeroDivisionError")
    ELSE LET cols == Len(key)
             rows == ceil_div(Len(t), cols)
             txt_arr == [i \in 0..(rows - 1) |-> [j \in 0..(cols - 1) |->
                            IF i * cols + j < Len(t)
                            THEN <<t[i * cols + j + 1]>>
                            ELSE U1(filler)]]
         IN  Ok(emit_columns(txt_arr, rows, ColumnarTranspositionCipher_get_order_list(key), 0, 0))

\* str.rstrip(chars)
RECURSIVE rstrip(_, _)
rstrip(t, chars) ==
    IF t # <<>> /\ \E k \in 1..Len(chars) : chars[k] = t[Len(t)]
    THEN rstrip(SubSeq(t, 1, Len(t) - 1), chars)
    ELSE t

ColumnarTranspositionCipher_decode(key, filler, t) ==
    IF t = <<>> THEN Ok(t)
    ELSE IF ~any_printable(t) THEN Raise("ValueError")
    ELSE IF Len(key) = 0 THEN Raise("ZeroDivisionError")
    ELSE LET cols == Len(key)
             rows == Len(t) \div cols
             order_list == ColumnarTranspositionCipher_get_order_list(key)
         IN  IF rows > 0 /\ \E i \in 1..cols : order_list[i] * rows + (rows - 1) >= Len(t)
             THEN Raise("IndexError")
             ELSE LET txt_arr == [j \in 0..(rows - 1) |-> [i \in 0..(cols - 1) |->
                                     <<t[order_list[i + 1] * rows + j + 1]>>]]
                  IN  Ok(rstrip(flatten(txt_arr, rows, cols), filler))

-----------------------------------------------------------------------------
(* Python values held in step lists: [t |-> type, v |-> payload] *)

\* a str: its code points
Str(s) == [t |-> "str", v |-> s]

IntObj(n) == [t |-> "int", v |-> n]

Tuple(items) == [t |-> "tuple", v |-> items]

List(items) == [t |-> "list", v |-> items]

\* x == y for the values above: values of different types are unequal
PyEq(x, y) == x.t = y.t /\ x.v = y.v

\* x in lst
PyIn(x, lst) == \E i \in 1..Len(lst) : PyEq(x, lst[i])

\* text encoder objects
CaesarCipher(shift, alpha_only) ==
    [t |-> "CaesarCipher", v |-> [shift |-> shift, alpha_only |-> alpha_only]]

AtbashCipher(alpha_only) ==
    [t |-> "AtbashCipher", v |-> [alpha_only |-> alpha_only]]

\* an AffineCipher whose construction did not raise
AffineCipher(key_a, key_b, alpha_only) ==
    [t |-> "AffineCipher",
     v |-> [key_a |-> key_a, key_b |-> key_b, alpha_only |-> alpha_only]]

\* a VigenereCipher: the key is not empty
VigenereCipher(key, alpha_only) ==
    [t |-> "VigenereCipher", v |-> [key |-> key, alpha_only |-> alpha_only]]

\* a RailFenceCipher: rails >= 2
RailFenceCipher(rails) == [t |-> "RailFenceCipher", v |-> [rails |-> rails]]

\* a ColumnarTranspositionCipher of a key without repeated characters: the
\* object keeps key.upper()
ColumnarTranspositionCipher(key, filler) ==
    [t |-> "ColumnarTranspositionCipher",
     v |-> [key |-> UpperText(key), filler |-> filler]]

Pipeline(steps) == [t |-> "Pipeline", v |-> [encoders |-> steps]]

-----------------------------------------------------------------------------
(* Pipeline.encode and Pipeline.decode *)

RECURSIVE Encode(_, _), Decode(_, _), Pipeline_encode(_, _), Pipeline_decode(_, _)

\* Salt.encode and Salt.decode are defined with Salt, further down
RECURSIVE Salt_encode(_, _, _), Salt_decode(_, _, _)

\* for encoder in self.encoders: text = encoder[0].encode(text)
Pipeline_encode(steps, t) ==
    IF steps = <<>> THEN Ok(t)
    ELSE LET r == Encode(Head(steps).v[1], t)
         IN  IF r.exc # "none" THEN r ELSE Pipeline_encode(Tail(steps), r.val)

\* the mutant: the steps folded in insertion order
Pipeline_decode_forward(steps, t) ==
    IF steps = <<>> THEN Ok(t)
    ELSE LET r == Decode(Head(steps).v[1], t)
         IN  IF r.exc # "none" THEN r ELSE Pipeline_decode(Tail(steps), r.val)

\* for decoder in self.encoders[::-1]: text = decoder[0].decode(text)
Pipeline_decode(steps, t) ==
    IF steps = <<>> THEN Ok(t)
    ELSE LET r == Decode(steps[Len(steps)].v[1], t)
         IN  IF r.exc # "none" THEN r
             ELSE Pipeline_decode(SubSeq(steps, 1, Len(steps) - 1), r.val)

\* obj.encode(text), dispatched on the object's class
Encode(obj, t) ==
    CASE obj.t = "CaesarCipher" -> CaesarCipher_encode(obj.v.shift, obj.v.alpha_only, t)
      [] obj.t = "AtbashCipher" -> AtbashCipher_encode(obj.v.alpha_only, t)
      [] obj.t = "AffineCipher" ->
            AffineCipher_encode(obj.v.key_a, obj.v.key_b, obj.v.alpha_only, t)
      [] obj.t = "VigenereCipher" -> VigenereCipher_encode(obj.v.key, obj.v.alpha_only, t)
      [] obj.t = "RailFenceCipher" -> RailFenceCipher_encode(obj.v.rails, t)
      [] obj.t = "ColumnarTranspositionCipher" ->
            ColumnarTranspositionCipher_encode(obj.v.key, obj.v.filler, t)
      [] obj.t = "Pipeline"     -> Pipeline_encode(obj.v.encoders, t)
      [] obj.t = "Salt"         -> Ok(Salt_encode(obj.v, t, 0).val)

\* obj.decode(text)
Decode(obj, t) ==
    CASE obj.t = "CaesarCipher" -> CaesarCipher_decode(obj.v.shift, obj.v.alpha_only, t)
      [] obj.t = "AtbashCipher" -> AtbashCipher_decode(obj.v.alpha_only, t)
      [] obj.t = "AffineCipher" ->
            AffineCipher_decode(obj.v.key_a, obj.v.key_b, obj.v.alpha_only, t)
      [] obj.t = "VigenereCipher" -> VigenereCipher_decode(obj.v.key, obj.v.alpha_only, t)
      [] obj.t = "RailFenceCipher" -> RailFenceCipher_decode(obj.v.rails, t)
      [] obj.t = "ColumnarTranspositionCipher" ->
            ColumnarTranspositionCipher_decode(obj.v.key, obj.v.filler, t)
      [] obj.t = "Pipeline"     -> Pipeline_decode(obj.v.encoders, t)
      [] obj.t = "Salt"         -> Ok(Salt_decode(obj.v, t, 0).val)

-----------------------------------------------------------------------------
(* Pipeline.__init__, add_encoders, remove_encoders *)

\* Pipeline.__is_valid
is_valid(encs) ==
    \A i \in 1..Len(encs) :
        /\ Len(encs[i].v) = 2
        /\ encs[i].v[2].t = "str"

\* Pipeline.__update_encoder_names, from the cleared list: the names appended
\* so far and whether the loop raised
RECURSIVE update_loop(_, _)
update_loop(encs, names) ==
    IF encs = <<>> THEN Ok(names)
    ELSE IF PyIn(Head(encs), names)
         THEN [exc |-> "ValueError", val |-> names]
         ELSE update_loop(Tail(encs), Append(names, Head(encs).v[2]))

\* the mutant: the names appended to the old list, which is not cleared
update_encoder_names_no_clear(encs) == update_loop(encs, encoder_names)

update_encoder_names(encs) == update_loop(encs, <<>>)

NoUndo == [valid |-> FALSE, encoders |-> <<>>, names |-> <<>>]

Observe(op, arg, exc) ==
    /\ last_op' = op
    /\ last_arg' = arg
    /\ raised' = exc
    /\ pre_encoders' = encoders
    /\ pre_names' = encoder_names

\* Pipeline(arg)
Pipeline_init(arg) ==
    /\ ~constructed
    /\ Observe("__init__", arg, ~is_valid(arg) \/ update_encoder_names(arg).exc # "none")
    /\ undo_of' = NoUndo
    /\ IF is_valid(arg)
       THEN LET u == update_encoder_names(arg)
            IN  /\ constructed' = (u.exc = "none")
                /\ encoders' = (IF u.exc = "none" THEN arg ELSE <<>>)
                /\ encoder_names' = (IF u.exc = "none" THEN u.val ELSE <<>>)
       ELSE /\ constructed' = FALSE
            /\ encoders' = <<>>
            /\ encoder_names' = <<>>
    /\ UNCHANGED <<textVars, dataVars, saltVars,
                 callVars, heapVars>>

\* self.add_encoders(arg)
add_encoders(arg) ==
    /\ constructed
    /\ Len(encoders) + Len(arg) <= MaxSteps
    /\ undo_of' = NoUndo
    /\ IF is_valid(arg)
       THEN LET u == update_encoder_names(encoders \o arg)
            IN  /\ encoders' = encoders \o arg
                /\ encoder_names' = u.val
                /\ Observe("add_encoders", arg, u.exc # "none")
       ELSE /\ UNCHANGED <<encoders, encoder_names>>
            /\ Observe("add_encoders", arg, TRUE)
    /\ UNCHANGED <<constructed, textVars, dataVars, saltVars,
                 callVars, heapVars>>

\* the names of a list of steps
NamesOf(steps) == [i \in 1..Len(steps) |-> steps[i].v[2]]

\* [encoder for encoder in encs if encoder[1] not in names]
RECURSIVE Kept(_, _)
Kept(encs, names) ==
    IF encs = <<>> THEN <<>>
    ELSE IF ~PyIn(Head(encs).v[2], names)
         THEN <<Head(encs)>> \o Kept(Tail(encs), names)
         ELSE Kept(Tail(encs), names)

\* the mutant: the names are not looked up
remove_rejects_types_only(arg) == \E i \in 1..Len(arg) : arg[i].t # "str"

\* the validation loop of remove_encoders: whether it raises
remove_rejects(arg) ==
    \E i \in 1..Len(arg) : arg[i].t # "str" \/ ~PyIn(arg[i], encoder_names)

\* self.remove_encoders(arg)
remove_encoders(arg) ==
    /\ constructed
    /\ IF remove_rejects(arg)
       THEN /\ UNCHANGED <<encoders, encoder_names>>
            /\ Observe("remove_encoders", arg, TRUE)
            /\ undo_of' = NoUndo
       ELSE LET temp_encoders == Kept(encoders, arg)
                u == update_encoder_names(temp_encoders)
            IN  /\ encoders' = temp_encoders
                /\ encoder_names' = u.val
                /\ Observe("remove_encoders", arg, u.exc # "none")
                /\ undo_of' =
                     IF last_op = "add_encoders" /\ ~raised /\ arg = NamesOf(last_arg)
                     THEN [valid |-> TRUE, encoders |-> pre_encoders, names |-> pre_names]
                     ELSE NoUndo
    /\ UNCHANGED <<constructed, textVars, dataVars, saltVars,
                 callVars, heapVars>>

-----------------------------------------------------------------------------
(* The Pipeline under a caller that constructs it and then adds and removes *)

\* "a", "b" and "c"
Names == {<<97>>, <<98>>, <<99>>}

WellFormedSteps ==
    { Tuple(<<CaesarCipher(3, FALSE), Str(<<97>>)>>),
      Tuple(<<AtbashCipher(FALSE), Str(<<98>>)>>),
      Tuple(<<CaesarCipher(-1, TRUE), Str(<<99>>)>>) }

\* steps the validation is there to refuse, and a two-element list
OtherSteps ==
    { Tuple(<<CaesarCipher(3, FALSE)>>),
      Tuple(<<CaesarCipher(3, FALSE), Str(<<97>>), Str(<<98>>)>>),
      Tuple(<<CaesarCipher(3, FALSE), IntObj(1)>>),
      List(<<CaesarCipher(3, FALSE), Str(<<97>>)>>) }

StepArgs == SeqsUpTo(WellFormedSteps \cup OtherSteps, MaxArgs)

NameArgs == SeqsUpTo({Str(n) : n \in Names} \cup {IntObj(1)}, MaxNames)

NoText == Raise("not called")

NoneObj == [t |-> "NoneType", v |-> <<>>]

\* the variables of StructuredDataEncoder's caller, when there is none
NoData ==
    /\ data = NoneObj
    /\ enc_data = NoText
    /\ dec_data = NoText

\* the record of a call on a Salt instance, before any call is made: op is the
\* method, arg its argument, of the text whose encoding arg is (when it is
\* one), moved whether the shared generator was, when the call was made, in
\* another state than the one the instance saved
NoCall == [op |-> "none", arg |-> <<>>, of |-> NoText, moved |-> FALSE, result |-> NoText]

\* the record of a call on cipher, before any call is kept
NoRef == [op |-> "none", arg |-> <<>>, result |-> NoText, between |-> FALSE]

\* no attribute written and no call kept, when a scenario does not look at
\* them
NoCalls ==
    /\ attrs = NoneObj
    /\ ref_call = NoRef

\* no list and no Pipeline object, when a scenario holds its one Pipeline
\* in encoders and encoder_names
NoHeap ==
    /\ lists = <<>>
    /\ pipelines = <<>>
    /\ passed = <<>>

\* the generator as the interpreter leaves it and no Salt instance, when a
\* scenario makes no use of them
NoSalt ==
    /\ rng = 0
    /\ salt = NoneObj
    /\ other = NoneObj
    /\ salt_call = NoCall
    /\ salt_ref = NoCall

InitPipeline ==
    /\ NoData
    /\ NoSalt
    /\ NoCalls
    /\ NoHeap
    /\ encoders = <<>>
    /\ encoder_names = <<>>
    /\ constructed = FALSE
    /\ last_op = "none"
    /\ last_arg = <<>>
    /\ raised = FALSE
    /\ pre_encoders = <<>>
    /\ pre_names = <<>>
    /\ undo_of = NoUndo
    /\ cipher = Pipeline(<<>>)
    /\ text = <<>>
    /\ enc_text = NoText
    /\ dec_text = NoText
    /\ pc = "pipeline"

NextPipeline ==
    \/ \E arg \in StepArgs : Pipeline_init(arg)
    \/ \E arg \in StepArgs : add_encoders(arg)
    \/ \E arg \in NameArgs : remove_encoders(arg)

SpecPipeline == InitPipeline /\ [][NextPipeline]_vars

-----------------------------------------------------------------------------
(* Claims about Pipeline's step list, under SpecPipeline *)

\* the steps of a list that have a second element, and so a name
Named(arg) == {i \in 1..Len(arg) : Len(arg[i].v) >= 2}

\* a call that adds arg to a pipeline whose names are names brings in a
\* name twice
IntroducesDuplicate(names, arg) ==
    \E i \in Named(arg) :
        \/ PyIn(arg[i].v[2], names)
        \/ \E j \in Named(arg) : j # i /\ PyEq(arg[j].v[2], arg[i].v[2])

Distinct(names) ==
    \A i, j \in 1..Len(names) : i # j => ~PyEq(names[i], names[j])

\* C4: in every state reachable by construction, add_encoders and
\* remove_encoders, the names in encoder_names are pairwise distinct.
C4_NamesDistinct == Distinct(encoder_names)

\* a name remove_encoders has to refuse: not a string, or no current step's name
BadName(names, n) == n.t # "str" \/ \A i \in 1..Len(names) : names[i] # n

\* C5: remove_encoders raises if any requested name is not a string or is not
\* the name of a current step, and then leaves encoders and encoder_names as
\* they were, also when other requested names are present.
C5_RemoveRejectsAtomically ==
    (last_op = "remove_encoders" /\ \E i \in 1..Len(last_arg) : BadName(pre_names, last_arg[i]))
        => (raised /\ encoders = pre_encoders /\ encoder_names = pre_names)

\* a remove_encoders was refused although one of its names was present
C5_Witness ==
    /\ last_op = "remove_encoders"
    /\ raised
    /\ Len(pre_encoders) >= 2
    /\ \E i, j \in 1..Len(last_arg) :
          /\ BadName(pre_names, last_arg[i])
          /\ ~BadName(pre_names, last_arg[j])

\* C6: add_encoders(steps) followed by remove_encoders of exactly the names of
\* those steps restores the step list and encoder_names of before the add.
C6_AddThenRemoveRestores ==
    undo_of.valid => (encoders = undo_of.encoders /\ encoder_names = undo_of.names)

\* the steps of encs whose name is none of names, in their order
Without(encs, names) ==
    SelectSeq(encs, LAMBDA e : \A i \in 1..Len(names) : names[i] # e.v[2])

Malformed(step) ==
    \/ ~(step.t = "tuple" /\ Len(step.v) = 2)
    \/ step.v[2].t # "str"

\* C8: constructing with or adding a list that holds a malformed step raises,
\* and a failing add_encoders leaves encoders and encoder_names unchanged.
C8_MalformedRejected ==
    /\ (/\ last_op \in {"__init__", "add_encoders"}
        /\ \E i \in 1..Len(last_arg) : Malformed(last_arg[i]))
           => raised
    /\ (last_op = "add_encoders" /\ raised)
           => (encoders = pre_encoders /\ encoder_names = pre_names)

-----------------------------------------------------------------------------
(* A caller that encodes a text and decodes the result, as the tests'
   run_cipher_tests does, or decodes the text it was given *)

run_encode ==
    /\ pc = "start"
    /\ enc_text' = Encode(cipher, text)
    /\ pc' = "encoded"
    /\ UNCHANGED <<cipher, text, dec_text, pipeVars, dataVars, saltVars,
                 callVars, heapVars>>

run_decode ==
    /\ pc = "encoded"
    /\ enc_text.exc = "none"
    /\ dec_text' = Decode(cipher, enc_text.val)
    /\ pc' = "decoded"
    /\ UNCHANGED <<cipher, text, enc_text, pipeVars, dataVars, saltVars,
                 callVars, heapVars>>

decode_given ==
    /\ pc = "start"
    /\ dec_text' = Decode(cipher, text)
    /\ pc' = "decoded_given"
    /\ UNCHANGED <<cipher, text, enc_text, pipeVars, dataVars, saltVars,
                 callVars, heapVars>>

NextText == run_encode \/ run_decode \/ decode_given

\* the caller of one encoder chosen from ciphers on one text chosen from texts
InitText(ciphers, texts) ==
    /\ NoData
    /\ NoSalt
    /\ NoCalls
    /\ NoHeap
    /\ cipher \in ciphers
    /\ text \in texts
    /\ enc_text = NoText
    /\ dec_text = NoText
    /\ pc = "start"
    /\ encoders = <<>>
    /\ encoder_names = <<>>
    /\ constructed = FALSE
    /\ last_op = "none"
    /\ last_arg = <<>>
    /\ raised = FALSE
    /\ pre_encoders = <<>>
    /\ pre_names = <<>>
    /\ undo_of = NoUndo

Printable(t) == \A i \in 1..Len(t) : 32 <= t[i] /\ t[i] <= 126

-----------------------------------------------------------------------------
(* Pipelines of ciphers and nested pipelines *)

MaxPipe == 2         \* longest step list of the pipelines that encode texts

\* " ", "A", "Z", "a", "~" and a line feed
PipeChars == {32, 65, 90, 97, 126, 10}

\* CaesarCipher(-1, alpha_only=True) does not invert itself on "A"
PipeEncoders ==
    { CaesarCipher(3, FALSE),
      AtbashCipher(FALSE),
      CaesarCipher(-1, TRUE),
      Pipeline(<<Tuple(<<CaesarCipher(3, FALSE), Str(<<99>>)>>),
                 Tuple(<<AtbashCipher(TRUE), Str(<<97>>)>>)>>),
      Pipeline(<<>>) }

\* the steps of the encoders es, named "a", "b", ... in their order
PipeSteps(es) == [i \in 1..Len(es) |-> Tuple(<<es[i], Str(<<96 + i>>)>>)]

Pipelines == {Pipeline(PipeSteps(es)) : es \in SeqsUpTo(PipeEncoders, MaxPipe)}

InitPipeText == InitText(Pipelines, SeqsUpTo(PipeChars, MaxLen))

SpecPipeText == InitPipeText /\ [][NextText]_vars

\* obj.decode(obj.encode(t)) == t
RoundTrips(obj, t) ==
    LET e == Encode(obj, t)
    IN  e.exc = "none" /\ Decode(obj, e.val) = Ok(t)

\* every step inverts itself on the text it receives when the pipeline
\* encodes t
RECURSIVE StepsRoundTrip(_, _)
StepsRoundTrip(steps, t) ==
    \/ steps = <<>>
    \/ /\ RoundTrips(Head(steps).v[1], t)
       /\ StepsRoundTrip(Tail(steps), Encode(Head(steps).v[1], t).val)

\* C1: encode applies the steps in insertion order and decode in the reverse
\* order, so a pipeline (also an empty one, or one of nested pipelines) whose
\* steps each invert themselves on the text they receive inverts itself:
\* pipeline.decode(pipeline.encode(s)) == s.
C1_PipelineRoundTrip ==
    (pc = "decoded" /\ StepsRoundTrip(cipher.v.encoders, text)) => dec_text = Ok(text)

\* a pipeline of a cipher and a nested pipeline has encoded a text to another
\* and decoded it
C1_Witness ==
    /\ pc = "decoded"
    /\ Len(cipher.v.encoders) = 2
    /\ cipher.v.encoders[1].v[1].t = "CaesarCipher"
    /\ cipher.v.encoders[2].v[1].t = "Pipeline"
    /\ StepsRoundTrip(cipher.v.encoders, text)
    /\ Len(text) >= 2
    /\ enc_text.val # text
    /\ dec_text = Ok(text)

-----------------------------------------------------------------------------
(* CaesarCipher in full mode, over every shift *)

\* " ", "!", "A", "~"
CaesarChars == {32, 33, 65, 126}

CaesarFull == {CaesarCipher(k, FALSE) : k \in (0 - MaxShift)..MaxShift}

InitCaesar == InitText(CaesarFull, SeqsUpTo(CaesarChars, MaxLen))

SpecCaesar == InitCaesar /\ [][NextText]_vars

\* C10: in full mode, for every integer shift k and every printable text,
\* CaesarCipher(k).decode(x) equals CaesarCipher(-k).encode(x), and
\* CaesarCipher(k).decode(CaesarCipher(k).encode(s)) == s.
C10_CaesarFullInverse ==
    /\ pc = "decoded_given" =>
          dec_text = CaesarCipher_encode(0 - cipher.v.shift, FALSE, text)
    /\ pc = "decoded" => dec_text = Ok(text)

\* a shift beyond the 95 characters, or a negative one, has been undone
C10_Witness ==
    /\ pc = "decoded"
    /\ (cipher.v.shift > 95 \/ cipher.v.shift < 0 - 95)
    /\ Len(text) = MaxLen
    /\ enc_text.val # text
    /\ dec_text = Ok(text)

-----------------------------------------------------------------------------
(* The six ciphers on texts that may hold characters outside 32..126 *)

\* "A", "a", "*", a line feed and a character beyond 126
CipherChars == {65, 97, 42, 10, 200}

Ciphers ==
    { CaesarCipher(3, FALSE), CaesarCipher(3, TRUE),
      AtbashCipher(FALSE), AtbashCipher(TRUE),
      AffineCipher(3, 3, FALSE), AffineCipher(3, 3, TRUE),
      VigenereCipher(<<75, 69, 89>>, FALSE), VigenereCipher(<<75, 69, 89>>, TRUE),
      RailFenceCipher(2), RailFenceCipher(3),
      ColumnarTranspositionCipher(<<107, 101, 121>>, <<95>>),
      ColumnarTranspositionCipher(<<65, 66>>, <<95>>) }

InitCiphers == InitText(Ciphers, SeqsUpTo(CipherChars, MaxLen))

SpecCiphers == InitCiphers /\ [][NextText]_vars

\* C9: encode and decode of every cipher raise whenever the text holds a
\* character outside 32..126, also when other characters are inside.
C9_OutOfRangeRejected ==
    (~Printable(text)) =>
        /\ pc = "encoded" => enc_text.exc # "none"
        /\ pc = "decoded_given" => dec_text.exc # "none"

-----------------------------------------------------------------------------
(* StructuredDataEncoder.  A leaf travels as text: __get_str writes it,
   the encoder encodes it, and decode hands the decoded text to eval.
   A float is held as the text str() gives for it; a dict is the sequence
   of its items in insertion order; a set and a frozenset are sets. *)

Bool(b) == [t |-> "bool", v |-> b]

Float(repr) == [t |-> "float", v |-> repr]

Dict(items) == [t |-> "dict", v |-> items]

Set(elements) == [t |-> "set", v |-> elements]

Frozenset(elements) == [t |-> "frozenset", v |-> elements]

\* an instance of a class __get_str does not know
Object == [t |-> "object", v |-> <<>>]

RECURSIVE Digits(_)
Digits(n) ==
    IF n < 10 THEN <<48 + n>> ELSE Digits(n \div 10) \o <<48 + (n % 10)>>

\* str(obj) of the leaves __get_str passes to str
str(obj) ==
    CASE obj.t = "int" ->
             IF obj.v < 0 THEN <<45>> \o Digits(-obj.v) ELSE Digits(obj.v)
      [] obj.t = "bool" ->
             IF obj.v THEN <<84, 114, 117, 101>> ELSE <<70, 97, 108, 115, 101>>
      [] obj.t = "NoneType" -> <<78, 111, 110, 101>>
      [] obj.t = "float" -> obj.v

\* a __get_str that writes a str as its bare content
get_str_untagged(obj) ==
    IF obj.t = "str" THEN Ok(obj.v) ELSE Ok(str(obj))

get_str(obj) ==
    IF obj.t \in {"int", "float", "bool", "NoneType"}
    THEN Ok(str(obj))
    ELSE IF obj.t = "str"
         THEN Ok(<<115, 116, 114, 40, 39>> \o obj.v \o <<39, 41>>)
         ELSE Raise("ValueError")

IsDigit(c) == 48 <= c /\ c <= 57

AllDigits(T) == Len(T) > 0 /\ \A i \in 1..Len(T) : IsDigit(T[i])

\* a decimal integer literal: no leading zero unless every digit is zero
IsIntLiteral(T) ==
    /\ AllDigits(T)
    /\ (T[1] = 48 => \A i \in 1..Len(T) : T[i] = 48)

RECURSIVE ParseNat(_)
ParseNat(T) ==
    IF Len(T) = 0 THEN 0
    ELSE 10 * ParseNat(SubSeq(T, 1, Len(T) - 1)) + (T[Len(T)] - 48)

\* digits "." digits, the form str() gives a float of moderate size
IsFloatLiteral(T) ==
    \E d \in 2..(Len(T) - 1) :
        /\ T[d] = 46
        /\ IsIntLiteral(SubSeq(T, 1, d - 1))
        /\ AllDigits(SubSeq(T, d + 1, Len(T)))

\* a name that is neither a keyword constant nor a builtin in scope
IsFreeName(T) ==
    /\ Len(T) > 0
    /\ \A i \in 1..Len(T) : IsAlpha(T[i])
    /\ T \notin { <<84, 114, 117, 101>>, <<70, 97, 108, 115, 101>>,
                  <<78, 111, 110, 101>>, <<115, 116, 114>> }

\* the least q >= p where C holds n apostrophes in a row, 0 when none
RECURSIVE find_quotes(_, _, _)
find_quotes(C, p, n) ==
    IF p + n - 1 > Len(C) THEN 0
    ELSE IF \A k \in 0..(n - 1) : C[p + k] = 39 THEN p
         ELSE find_quotes(C, p + 1, n)

\* The argument list C of str( C ) read as Python reads it from p on:
\* adjacent string literals, single or triple quoted, run together; any
\* other token beside a literal, or a literal that never closes, is a
\* syntax error.  C holds no backslash, line break or blank.
RECURSIVE parse_strings(_, _, _)
parse_strings(C, p, acc) ==
    IF p > Len(C) THEN Ok(Str(acc))
    ELSE IF C[p] # 39 THEN Raise("SyntaxError")
    ELSE IF p + 2 <= Len(C) /\ C[p + 1] = 39 /\ C[p + 2] = 39
         THEN LET q == find_quotes(C, p + 3, 3)
              IN  IF q = 0 THEN Raise("SyntaxError")
                  ELSE parse_strings(C, q + 3, acc \o SubSeq(C, p + 3, q - 1))
         ELSE LET q == find_quotes(C, p + 1, 1)
              IN  IF q = 0 THEN Raise("SyntaxError")
                  ELSE parse_strings(C, q + 1, acc \o SubSeq(C, p + 1, q - 1))

\* the place of the "+" in the sum of two integer literals, 0 when T is
\* no such sum
PlusAt(T) ==
    IF \E d \in 2..(Len(T) - 1) :
           /\ T[d] = 43
           /\ IsIntLiteral(SubSeq(T, 1, d - 1))
           /\ IsIntLiteral(SubSeq(T, d + 1, Len(T)))
    THEN CHOOSE d \in 2..(Len(T) - 1) :
           /\ T[d] = 43
           /\ IsIntLiteral(SubSeq(T, 1, d - 1))
           /\ IsIntLiteral(SubSeq(T, d + 1, Len(T)))
    ELSE 0

\* eval of the texts __get_str writes, and of sums of integer literals
eval(T) ==
    CASE T = <<84, 114, 117, 101>> -> Ok(Bool(TRUE))
      [] T = <<70, 97, 108, 115, 101>> -> Ok(Bool(FALSE))
      [] T = <<78, 111, 110, 101>> -> Ok(NoneObj)
      [] IsIntLiteral(T) -> Ok(IntObj(ParseNat(T)))
      [] Len(T) > 1 /\ T[1] = 45 /\ IsIntLiteral(Tail(T)) ->
             Ok(IntObj(-ParseNat(Tail(T))))
      [] IsFloatLiteral(T) -> Ok(Float(T))
      [] Len(T) > 1 /\ T[1] = 45 /\ IsFloatLiteral(Tail(T)) -> Ok(Float(T))
      [] PlusAt(T) > 0 ->
             Ok(IntObj(ParseNat(SubSeq(T, 1, PlusAt(T) - 1))
                         + ParseNat(SubSeq(T, PlusAt(T) + 1, Len(T)))))
      [] IsFreeName(T) -> Raise("NameError")
      [] Len(T) >= 7 /\ SubSeq(T, 1, 4) = <<115, 116, 114, 40>>
                     /\ T[Len(T)] = 41 ->
             parse_strings(SubSeq(T, 5, Len(T) - 1), 1, <<>>)
      [] OTHER -> Raise("SyntaxError")

RECURSIVE StructuredDataEncoder_encode(_, _), StructuredDataEncoder_decode(_, _)

\* self.encode(datum) or self.decode(datum), as the mode says
coded(encoder, datum, mode) ==
    IF mode = "encode"
    THEN StructuredDataEncoder_encode(encoder, datum)
    ELSE StructuredDataEncoder_decode(encoder, datum)

\* the exception of the first result that raised
first_raise(results) ==
    LET i == CHOOSE i \in 1..Len(results) :
                 /\ results[i].exc # "none"
                 /\ \A j \in 1..(i - 1) : results[j].exc = "none"
    IN  Raise(results[i].exc)

\* a list encoder that returns what it has when an element raises
list_encoder_partial(encoder, items, mode) ==
    Ok([i \in 1..Len(items) |-> coded(encoder, items[i], mode).val])

\* the list of the coded elements, or the first exception on the way
list_encoder(encoder, items, mode) ==
    LET results == [i \in 1..Len(items) |-> coded(encoder, items[i], mode)]
    IN  IF \E i \in 1..Len(items) : results[i].exc # "none"
        THEN first_raise(results)
        ELSE Ok([i \in 1..Len(items) |-> results[i].val])

tuple_encoder(encoder, items, mode) == list_encoder(encoder, items, mode)

\* new_dict[key] = value on a dict held as its sequence of items
dict_setitem(items, key, value) ==
    IF \E i \in 1..Len(items) : items[i][1] = key
    THEN [i \in 1..Len(items) |->
              IF items[i][1] = key THEN <<key, value>> ELSE items[i]]
    ELSE Append(items, <<key, value>>)

RECURSIVE dict_fill(_, _, _, _)
dict_fill(keys, values, i, new_dict) ==
    IF i > Len(keys) THEN new_dict
    ELSE dict_fill(keys, values, i + 1,
                   dict_setitem(new_dict, keys[i], values[i]))

\* each assignment codes the value, then the key
dict_encoder(encoder, items, mode) ==
    LET n == Len(items)
        results == [k \in 1..(2 * n) |->
                       coded(encoder, items[(k + 1) \div 2][1 + (k % 2)], mode)]
    IN  IF \E k \in 1..(2 * n) : results[k].exc # "none"
        THEN first_raise(results)
        ELSE Ok(dict_fill([i \in 1..n |-> results[2 * i].val],
                          [i \in 1..n |-> results[2 * i - 1].val], 1, <<>>))

\* the set of the coded elements; when elements raise, the one met first
\* in the set's iteration order decides the exception
set_encoder(encoder, elements, mode) ==
    LET results == {coded(encoder, e, mode) : e \in elements}
    IN  IF \E r \in results : r.exc # "none"
        THEN Raise((CHOOSE r \in results : r.exc # "none").exc)
        ELSE Ok({r.val : r \in results})

frozen_set_encoder(encoder, elements, mode) ==
    set_encoder(encoder, elements, mode)

\* a rebuilding that leaves the coded elements of a tuple in the list
\* __list_encoder returned
rebuilt_without_tuple(kind, payload) ==
    IF payload.exc # "none" THEN payload
    ELSE Ok([t |-> IF kind = "tuple" THEN "list" ELSE kind, v |-> payload.val])

\* the container of type kind around the payload that was coded
rebuilt(kind, payload) ==
    IF payload.exc # "none" THEN payload
    ELSE Ok([t |-> kind, v |-> payload.val])

StructuredDataEncoder_encode(encoder, obj) ==
    CASE obj.t = "list" -> rebuilt("list", list_encoder(encoder, obj.v, "encode"))
      [] obj.t = "tuple" ->
             rebuilt("tuple", tuple_encoder(encoder, obj.v, "encode"))
      [] obj.t = "dict" -> rebuilt("dict", dict_encoder(encoder, obj.v, "encode"))
      [] obj.t = "set" -> rebuilt("set", set_encoder(encoder, obj.v, "encode"))
      [] obj.t = "frozenset" ->
             rebuilt("frozenset", frozen_set_encoder(encoder, obj.v, "encode"))
      [] OTHER ->
             LET written == get_str(obj)
             IN  IF written.exc # "none" THEN written
                 ELSE rebuilt("str", Encode(encoder, written.val))

StructuredDataEncoder_decode(encoder, obj) ==
    CASE obj.t = "list" -> rebuilt("list", list_encoder(encoder, obj.v, "decode"))
      [] obj.t = "tuple" ->
             rebuilt("tuple", tuple_encoder(encoder, obj.v, "decode"))
      [] obj.t = "dict" -> rebuilt("dict", dict_encoder(encoder, obj.v, "decode"))
      [] obj.t = "set" -> rebuilt("set", set_encoder(encoder, obj.v, "decode"))
      [] obj.t = "frozenset" ->
             rebuilt("frozenset", frozen_set_encoder(encoder, obj.v, "decode"))
      [] obj.t = "str" ->
             LET decoded == Decode(encoder, obj.v)
             IN  IF decoded.exc # "none" THEN decoded ELSE eval(decoded.val)
      [] OTHER -> Raise("ValueError")

-----------------------------------------------------------------------------
(* A caller that encodes a value with a StructuredDataEncoder around cipher
   and decodes the result, or decodes the value it was given *)

sde_encode ==
    /\ pc = "sde_start"
    /\ enc_data' = StructuredDataEncoder_encode(cipher, data)
    /\ pc' = "sde_encoded"
    /\ UNCHANGED <<data, dec_data, cipher, text, enc_text, dec_text, pipeVars, saltVars,
                 callVars, heapVars>>

sde_decode ==
    /\ pc = "sde_encoded"
    /\ enc_data.exc = "none"
    /\ dec_data' = StructuredDataEncoder_decode(cipher, enc_data.val)
    /\ pc' = "sde_decoded"
    /\ UNCHANGED <<data, enc_data, cipher, text, enc_text, dec_text, pipeVars, saltVars,
                 callVars, heapVars>>

sde_decode_given ==
    /\ pc = "sde_start"
    /\ dec_data' = StructuredDataEncoder_decode(cipher, data)
    /\ pc' = "sde_decoded_given"
    /\ UNCHANGED <<data, enc_data, cipher, text, enc_text, dec_text, pipeVars, saltVars,
                 callVars, heapVars>>

NextSDE == sde_encode \/ sde_decode \/ sde_decode_given

MaxStr == 3          \* longest str leaf
MaxItems == 2        \* most elements of a container

\* "a", "4" and the apostrophe
StrChars == {97, 52, 39}

Strings == {Str(s) : s \in SeqsUpTo(StrChars, MaxStr)}

\* 3.14, -0.5 and inf
Floats == {Float(<<51, 46, 49, 52>>), Float(<<45, 48, 46, 53>>),
           Float(<<105, 110, 102>>)}

Leaves ==
    Strings \cup Floats
        \cup {IntObj(0), IntObj(-7), IntObj(42), Bool(TRUE), Bool(FALSE),
              NoneObj}

\* the leaves that go into containers
Elements ==
    {Str(<<97>>), Str(<<52, 50>>), Str(<<39>>), IntObj(42), Bool(FALSE),
     NoneObj, Float(<<51, 46, 49, 52>>)}

DictKeys == {Str(<<97>>), Str(<<39>>), IntObj(42)}

DictValues == {Str(<<52, 50>>), NoneObj, Float(<<51, 46, 49, 52>>)}

Flat ==
    {List(s) : s \in SeqsUpTo(Elements, MaxItems)}
        \cup {Tuple(s) : s \in SeqsUpTo(Elements, MaxItems)}
        \cup {Set(S) : S \in {S \in SUBSET Elements : Cardinality(S) <= MaxItems}}
        \cup {Frozenset(S) :
                 S \in {S \in SUBSET Elements : Cardinality(S) <= MaxItems}}
        \cup {Dict(s) : s \in {s \in SeqsUpTo(DictKeys \X DictValues, MaxItems) :
                                  \A i, j \in 1..Len(s) :
                                      s[i][1] = s[j][1] => i = j}}

\* containers in containers
Nested ==
    { List(<<List(<<IntObj(42)>>), Tuple(<<Str(<<97>>), NoneObj>>)>>),
      List(<<Dict(<<<<Str(<<97>>), List(<<IntObj(42), Str(<<97>>)>>)>>>>),
             Set({IntObj(42), Str(<<97>>)})>>),
      Dict(<<<<Tuple(<<IntObj(42), Str(<<97>>)>>),
               Frozenset({Bool(FALSE)})>>>>),
      Set({Tuple(<<Str(<<97>>)>>), Frozenset({IntObj(42)})}),
      Tuple(<<List(<<Str(<<97, 39, 39>>)>>)>>) }

Supported(obj) ==
    \/ obj \in Leaves
    \/ obj \in Flat
    \/ obj \in Nested

Values == Leaves \cup Flat \cup Nested \cup {Object, List(<<Object>>)}

\* a cipher and a pipeline, both of which give back every text of
\* printable characters
SDEEncoders ==
    { CaesarCipher(3, FALSE),
      Pipeline(<<Tuple(<<RailFenceCipher(2), Str(<<114>>)>>),
                 Tuple(<<AtbashCipher(FALSE), Str(<<97>>)>>)>>) }

InitSDE ==
    /\ data \in Values
    /\ enc_data = NoText
    /\ dec_data = NoText
    /\ NoSalt
    /\ NoCalls
    /\ NoHeap
    /\ cipher \in SDEEncoders
    /\ text = <<>>
    /\ enc_text = NoText
    /\ dec_text = NoText
    /\ pc = "sde_start"
    /\ encoders = <<>>
    /\ encoder_names = <<>>
    /\ constructed = FALSE
    /\ last_op = "none"
    /\ last_arg = <<>>
    /\ raised = FALSE
    /\ pre_encoders = <<>>
    /\ pre_names = <<>>
    /\ undo_of = NoUndo

SpecSDE == InitSDE /\ [][NextSDE]_vars

\* C2: for every supported leaf or container, str leaves with quote
\* characters among them, encode raises nothing and decode of what encode
\* returned gives back a value equal to the original
C2_CodecRoundTrip ==
    Supported(data) =>
        /\ pc = "sde_encoded" => enc_data.exc = "none"
        /\ pc = "sde_decoded" => dec_data = Ok(data)

-----------------------------------------------------------------------------
(* CaesarCipher in letters-only mode, over every shift *)

\* "A", "Z", "a", "z" and "!"
AlphaChars == {65, 90, 97, 122, 33}

CaesarAlpha == {CaesarCipher(k, TRUE) : k \in (0 - MaxShift)..MaxShift}

InitCaesarAlpha == InitText(CaesarAlpha, SeqsUpTo(AlphaChars, MaxLen))

SpecCaesarAlpha == InitCaesarAlpha /\ [][NextText]_vars

\* the letter k places after c in c's own case, around the alphabet;
\* c itself when c is no letter
LetterShifted(c, k) ==
    IF IsUpper(c) THEN 65 + ((c - 65 + k) % 26)
    ELSE IF IsLower(c) THEN 97 + ((c - 97 + k) % 26)
    ELSE c

\* C11: in letters-only mode, for every integer shift k, encode maps each
\* letter to the letter of the same case k places on modulo 26 and leaves
\* the other characters alone, and decode(encode(s)) == s.
C11_CaesarAlphaRoundTrip ==
    /\ pc = "encoded" =>
          enc_text = Ok([i \in 1..Len(text) |-> LetterShifted(text[i], cipher.v.shift)])
    /\ pc = "decoded" => dec_text = Ok(text)

-----------------------------------------------------------------------------
(* AtbashCipher in both modes *)

\* " ", "~", "0", "A", "M", "N", "Z", "a", "m", "z"
AtbashChars == {32, 126, 48, 65, 77, 78, 90, 97, 109, 122}

\* texts over AtbashChars, and every printable character by itself
AtbashTexts == SeqsUpTo(AtbashChars, MaxLen) \cup {<<c>> : c \in 32..126}

InitAtbash == InitText({AtbashCipher(FALSE), AtbashCipher(TRUE)}, AtbashTexts)

SpecAtbash == InitAtbash /\ [][NextText]_vars

\* c reflected in the printable range, or, letters only, in its own case
Reflected(alpha_only, c) ==
    IF ~alpha_only THEN 126 - (c - 32)
    ELSE IF IsUpper(c) THEN 65 + (90 - c)
    ELSE IF IsLower(c) THEN 97 + (122 - c)
    ELSE c

\* C12: in both modes and for every printable text s, encode(s) is the
\* reflection of each character (of the printable range in full mode, of
\* each letter within its case in letters-only mode, other characters
\* unchanged), decode(s) == encode(s) and encode(encode(s)) == s.
C12_AtbashInvolution ==
    /\ pc = "encoded" =>
          /\ enc_text = Ok([i \in 1..Len(text) |->
                               Reflected(cipher.v.alpha_only, text[i])])
          /\ Encode(cipher, enc_text.val) = Ok(text)
    /\ pc = "decoded_given" => dec_text = Encode(cipher, text)
    /\ pc = "decoded" => dec_text = Ok(text)

\* letters of both cases beside another character, reflected and restored
C12_Witness ==
    /\ pc = "decoded"
    /\ cipher.v.alpha_only
    /\ Len(text) = MaxLen
    /\ \E i, j, k \in 1..Len(text) :
          IsUpper(text[i]) /\ IsLower(text[j]) /\ ~IsAlpha(text[k])
    /\ enc_text.val # text
    /\ dec_text = Ok(text)

-----------------------------------------------------------------------------
(* AffineCipher: construction, then the caller of encode and decode *)

MaxKey == 3          \* key_a ranges from -MaxKey to 127 + MaxKey

\* AffineCipher(key_a, key_b, alpha_only), the arguments being those of the
\* object in cipher
AffineCipher_init ==
    /\ pc = "new"
    /\ pc' = IF AffineCipher_init_raises(cipher.v.key_a, cipher.v.alpha_only)
             THEN "init_raised"
             ELSE "start"
    /\ UNCHANGED <<cipher, text, enc_text, dec_text, pipeVars, dataVars, saltVars,
                 callVars, heapVars>>

NextAffine == AffineCipher_init \/ NextText

\* "A", "z" and "!"
AffineChars == {65, 122, 33}

\* key_b below zero, zero, small, and beyond both moduli
AffineKeyBs == {-100, 0, 3, 200}

AffineTexts == SeqsUpTo(AffineChars, MaxLen) \cup {<<c>> : c \in 32..126}

InitAffine ==
    /\ NoData
    /\ NoSalt
    /\ NoCalls
    /\ NoHeap
    /\ cipher \in {AffineCipher(a, b, m) : a \in (0 - MaxKey)..(127 + MaxKey),
                                          b \in AffineKeyBs, m \in BOOLEAN}
    /\ text \in AffineTexts
    /\ enc_text = NoText
    /\ dec_text = NoText
    /\ pc = "new"
    /\ encoders = <<>>
    /\ encoder_names = <<>>
    /\ constructed = FALSE
    /\ last_op = "none"
    /\ last_arg = <<>>
    /\ raised = FALSE
    /\ pre_encoders = <<>>
    /\ pre_names = <<>>
    /\ undo_of = NoUndo

SpecAffine == InitAffine /\ [][NextAffine]_vars

\* the modulus encode and decode work with
AffineModulus(alpha_only) == IF alpha_only THEN 26 ELSE 95

\* the greatest common divisor of a >= 0 and m > 0
Gcd(a, m) ==
    CHOOSE d \in 1..m :
        /\ a % d = 0 /\ m % d = 0
        /\ \A e \in (d + 1)..m : ~(a % e = 0 /\ m % e = 0)

AffineKeyOutOfRange(key_a, alpha_only) ==
    key_a < 0 \/ key_a > (IF alpha_only THEN 26 ELSE 127)

C14_AffineRoundTrip ==
    /\ pc \in {"start", "encoded", "decoded"} =>
          AffineCipher_mod_inverse(cipher.v.key_a,
                                   AffineModulus(cipher.v.alpha_only)) # 0
    /\ (pc = "encoded" /\ cipher.v.alpha_only) =>
          /\ enc_text.exc = "none"
          /\ Len(enc_text.val) = Len(text)
          /\ \A i \in 1..Len(text) :
                /\ IsUpper(text[i]) <=> IsUpper(enc_text.val[i])
                /\ IsLower(text[i]) <=> IsLower(enc_text.val[i])
                /\ ~IsAlpha(text[i]) => enc_text.val[i] = text[i]
    /\ pc = "decoded" => dec_text = Ok(text)

\* a text was changed and restored under the largest accepted key_a of a
\* mode and a key_b below zero or beyond the modulus
C14_Witness ==
    /\ pc = "decoded"
    /\ cipher.v.key_a = (IF cipher.v.alpha_only THEN 25 ELSE 127)
    /\ (cipher.v.key_b < 0 \/ cipher.v.key_b > 95)
    /\ Len(text) = MaxLen
    /\ enc_text.val # text
    /\ dec_text = Ok(text)

-----------------------------------------------------------------------------
(* VigenereCipher: construction, then the caller of encode and decode *)

MaxKeyLen == 2       \* longest key of a VigenereCipher

\* VigenereCipher(key, alpha_only), the arguments being those of the object
\* in cipher: only the empty key is refused
VigenereCipher_init ==
    /\ pc = "new"
    /\ pc' = IF cipher.v.key = <<>> THEN "init_raised" ELSE "start"
    /\ UNCHANGED <<cipher, text, enc_text, dec_text, pipeVars, dataVars, saltVars,
                 callVars, heapVars>>

NextVigenere == VigenereCipher_init \/ NextText

\* "K", "k", "~", "1" and a line feed
KeyChars == {75, 107, 126, 49, 10}

\* "A", "z", " " and "~"
VigenereChars == {65, 122, 32, 126}

VigenereTexts == SeqsUpTo(VigenereChars, MaxLen) \cup {<<c>> : c \in 32..126}

InitVigenere ==
    /\ NoData
    /\ NoSalt
    /\ NoCalls
    /\ NoHeap
    /\ cipher \in {VigenereCipher(k, m) : k \in SeqsUpTo(KeyChars, MaxKeyLen),
                                         m \in BOOLEAN}
    /\ text \in VigenereTexts
    /\ enc_text = NoText
    /\ dec_text = NoText
    /\ pc = "new"
    /\ encoders = <<>>
    /\ encoder_names = <<>>
    /\ constructed = FALSE
    /\ last_op = "none"
    /\ last_arg = <<>>
    /\ raised = FALSE
    /\ pre_encoders = <<>>
    /\ pre_names = <<>>
    /\ undo_of = NoUndo

SpecVigenere == InitVigenere /\ [][NextVigenere]_vars

AlphabeticKey(key) == \A i \in 1..Len(key) : IsAlpha(key[i])

\* the upper-cased key character that meets the character at 1-based i
KeyAt(key, i) == Upper(key[((i - 1) % Len(key)) + 1])

\* C15: for every non-empty key and every printable text s,
\* decode(encode(s)) == s; in full mode the character at i is moved on by
\* the code of the upper-cased repeated key character minus 32, modulo 95;
\* in letters-only mode with an alphabetic key a letter is moved on by the
\* key letter modulo 26 in its own case and other characters stay.
C15_VigenereRoundTrip ==
    (~cipher.v.alpha_only \/ AlphabeticKey(cipher.v.key)) =>
        /\ (pc = "encoded" /\ ~cipher.v.alpha_only) =>
              enc_text = Ok([i \in 1..Len(text) |->
                  32 + ((text[i] - 32 + KeyAt(cipher.v.key, i) - 32) % 95)])
        /\ (pc = "encoded" /\ cipher.v.alpha_only) =>
              enc_text = Ok([i \in 1..Len(text) |->
                  LetterShifted(text[i], KeyAt(cipher.v.key, i) - 65)])
        /\ pc = "decoded" => dec_text = Ok(text)

\* a lower-case key letter moved letters of both cases, and decode brought
\* them back
C15_Witness ==
    /\ pc = "decoded"
    /\ cipher.v.alpha_only
    /\ cipher.v.key = <<75, 107>>
    /\ Len(text) = MaxLen
    /\ \E i, j \in 1..Len(text) : IsUpper(text[i]) /\ IsLower(text[j])
    /\ enc_text.val # text
    /\ dec_text = Ok(text)

\* C16: a letters-only VigenereCipher whose key holds a character that is
\* no letter is refused at construction, or else every encode and decode of
\* a non-empty text raises, however short the text.
C16_NonAlphaKeyRejected ==
    (cipher.v.alpha_only /\ ~AlphabeticKey(cipher.v.key) /\ text # <<>>) =>
        /\ pc = "encoded" => enc_text.exc # "none"
        /\ pc = "decoded_given" => dec_text.exc # "none"

-----------------------------------------------------------------------------
(* RailFenceCipher over rail counts from 2 *)

MaxRails == 3        \* most rails of a RailFenceCipher
MaxRailLen == 6      \* longest text given to a RailFenceCipher

\* "A", "B" and the "*" decode marks the zig-zag with
RailChars == {65, 66, 42}

InitRailFence ==
    InitText({RailFenceCipher(r) : r \in 2..MaxRails},
             SeqsUpTo(RailChars, MaxRailLen))

SpecRailFence == InitRailFence /\ [][NextText]_vars

\* the rail of the character at 0-based j on a zig-zag between rail 0 and
\* rail r - 1
RailOf(j, r) ==
    LET m == j % (2 * (r - 1))
    IN  IF m < r THEN m ELSE 2 * (r - 1) - m

\* the characters of t on rail k, from 0-based j on, in their order
RECURSIVE OnRail(_, _, _, _)
OnRail(t, r, k, j) ==
    IF j >= Len(t) THEN <<>>
    ELSE (IF RailOf(j, r) = k THEN <<t[j + 1]>> ELSE <<>>) \o OnRail(t, r, k, j + 1)

\* the rails from k on, read one after the other
RECURSIVE RailsRead(_, _, _)
RailsRead(t, r, k) ==
    IF k >= r THEN <<>> ELSE OnRail(t, r, k, 0) \o RailsRead(t, r, k + 1)

\* C17: for every rail count r >= 2 and every printable text s, of length 1
\* or shorter than r or holding "*" as it may be, encode(s) is the rails of
\* the zig-zag between rail 0 and rail r - 1 read top to bottom, and
\* decode(encode(s)) == s.
C17_RailFenceRoundTrip ==
    /\ pc = "encoded" => enc_text = Ok(RailsRead(text, cipher.v.rails, 0))
    /\ pc = "decoded" => dec_text = Ok(text)

\* a text with "*" in it, long enough to turn at both ends of three rails,
\* was rearranged and restored
C17_Witness ==
    /\ pc = "decoded"
    /\ cipher.v.rails = 3
    /\ Len(text) >= 5
    /\ \E i, j \in 1..Len(text) : text[i] = 42 /\ text[j] # 42
    /\ enc_text.val # text
    /\ dec_text = Ok(text)

-----------------------------------------------------------------------------
(* ColumnarTranspositionCipher over keys of unique characters *)

MaxColLen == 4       \* longest text given to a ColumnarTranspositionCipher

\* "A", "B" and "_", the default filler
ColumnarChars == {65, 66, 95}

\* "key", "ba", "b" and "a1", with the default filler, and "ba" with "*"
ColumnarCiphers ==
    { ColumnarTranspositionCipher(<<107, 101, 121>>, <<95>>),
      ColumnarTranspositionCipher(<<98, 97>>, <<95>>),
      ColumnarTranspositionCipher(<<98>>, <<95>>),
      ColumnarTranspositionCipher(<<97, 49>>, <<95>>),
      ColumnarTranspositionCipher(<<98, 97>>, <<42>>) }

InitColumnar == InitText(ColumnarCiphers, SeqsUpTo(ColumnarChars, MaxColLen))

SpecColumnar == InitColumnar /\ [][NextText]_vars

\* C18: for every ColumnarTranspositionCipher whose key characters are
\* unique and every printable text s, decode(encode(s)) == s.
C18_ColumnarRoundTrip ==
    (ColumnarTranspositionCipher_is_unique(cipher.v.key) /\ pc = "decoded")
        => dec_text = Ok(text)

-----------------------------------------------------------------------------
(* Salt and the generator of the random module *)

RngStates == 8       \* number of states of the generator
MaxSalt == 2         \* largest max_length given to Salt
MaxSaltText == 2     \* longest text given to Salt

\* The generator of the random module is a deterministic machine with one
\* state for the whole process: seed sets the state from the seed, getstate
\* reads it, setstate writes it, and each draw computes a number from the
\* state and moves the state on.  The model keeps that and replaces the
\* Mersenne Twister by a short congruential step.

\* random.seed(a): the state it leaves
random_seed(a) == a % RngStates

\* one step of the generator
random_next(state) == (5 * state + 3) % RngStates

\* a setstate that leaves the generator as it is
random_setstate_skipped(state, current) == current

\* random.setstate(state) on a generator now in state current: the state it
\* leaves
random_setstate(state, current) == state

\* random.randint(a, b) from state: the number drawn and the state left
random_randint(state, a, b) ==
    [val |-> a + (random_next(state) % (b - a + 1)), state |-> random_next(state)]

\* random.choices(population, k=k) from state: k elements, one draw each
RECURSIVE random_choices(_, _, _)
random_choices(state, population, k) ==
    IF k = 0 THEN [val |-> <<>>, state |-> state]
    ELSE LET drawn == random_next(state)
             rest == random_choices(drawn, population, k - 1)
         IN [val |-> <<population[((drawn * Len(population)) \div RngStates) + 1]>> \o rest.val,
             state |-> rest.state]

\* self.characters: the printable characters from "!" to "~" except "-",
\* the apostrophe and the double quote
Salt_characters ==
    SelectSeq([i \in 1..94 |-> 32 + i], LAMBDA c : c \notin {45, 39, 34})

Salt_positions == {"front", "end", "between"}

\* the instance Salt.__init__ builds; random_state is the generator's state
\* right after seeding
Salt(position, random_seed_, min_length, max_length) ==
    [t |-> "Salt",
     v |-> [position |-> position, random_state |-> random_seed(random_seed_),
            min_length |-> min_length, max_length |-> max_length]]

\* Salt.__get_salt from state: the salt and the state left
Salt_get_salt(self, state) ==
    LET k == random_randint(state, self.min_length, self.max_length)
        chosen == random_choices(k.state, Salt_characters, k.val)
    IN [val |-> chosen.val, state |-> chosen.state]

\* the loop of encode in 'between' mode from character i on: each character
\* followed by a salt of its own
RECURSIVE Salt_encode_between(_, _, _, _)
Salt_encode_between(self, txt, i, state) ==
    IF i > Len(txt) THEN [val |-> <<>>, state |-> state]
    ELSE LET s == Salt_get_salt(self, state)
             rest == Salt_encode_between(self, txt, i + 1, s.state)
         IN [val |-> <<txt[i]>> \o s.val \o rest.val, state |-> rest.state]

\* Salt.encode(text) while the shared generator is in state current: what it
\* returns and the state it leaves the generator in
Salt_encode(self, txt, current) ==
    IF txt = <<>> THEN [val |-> txt, state |-> current]
    ELSE LET state == random_setstate(self.random_state, current)
             s == Salt_get_salt(self, state)
         IN CASE self.position = "front" -> [val |-> s.val \o txt, state |-> s.state]
              [] self.position = "end" -> [val |-> txt \o s.val, state |-> s.state]
              [] self.position = "between" -> Salt_encode_between(self, txt, 1, state)

\* str.removeprefix
str_removeprefix(txt, prefix) ==
    IF Len(prefix) <= Len(txt) /\ SubSeq(txt, 1, Len(prefix)) = prefix
    THEN SubSeq(txt, Len(prefix) + 1, Len(txt))
    ELSE txt

\* a removesuffix that takes nothing off
str_removesuffix_kept(txt, suffix) == txt

\* str.removesuffix
str_removesuffix(txt, suffix) ==
    IF Len(suffix) <= Len(txt)
       /\ SubSeq(txt, Len(txt) - Len(suffix) + 1, Len(txt)) = suffix
    THEN SubSeq(txt, 1, Len(txt) - Len(suffix))
    ELSE txt

\* the loop of decode in 'between' mode at index i (counted from 0): it stops
\* at the IndexError of text[i]
RECURSIVE Salt_decode_between(_, _, _, _, _)
Salt_decode_between(self, txt, i, state, pure_text) ==
    IF i >= Len(txt) THEN [val |-> pure_text, state |-> state]
    ELSE LET s == Salt_get_salt(self, state)
         IN Salt_decode_between(self, txt, i + Len(s.val) + 1, s.state,
                                Append(pure_text, txt[i + 1]))

\* Salt.decode(text) while the shared generator is in state current
Salt_decode(self, txt, current) ==
    IF txt = <<>> THEN [val |-> txt, state |-> current]
    ELSE LET state == random_setstate(self.random_state, current)
             s == Salt_get_salt(self, state)
         IN CASE self.position = "front" ->
                   [val |-> str_removeprefix(txt, s.val), state |-> s.state]
              [] self.position = "end" ->
                   [val |-> str_removesuffix(txt, s.val), state |-> s.state]
              [] self.position = "between" ->
                   Salt_decode_between(self, txt, 0, state, <<>>)

\* "a!a!...", "!" being one of the characters a salt is made of
SaltLongest == [i \in 1..MaxSaltText |-> IF i % 2 = 1 THEN 97 ELSE 33]

\* the texts given to Salt: "", "a", "a!", ...
SaltTexts == {SubSeq(SaltLongest, 1, n) : n \in 0..MaxSaltText}

SaltSeeds == {1, 42}

OtherSeeds == {7}

\* the call just made, or the call kept from before
Remembered(call) ==
    IF salt_ref = NoCall
    THEN {NoCall, [call EXCEPT !.of = NoText]}
    ELSE {salt_ref}

\* salt = Salt(position, random_seed, min_length, max_length): the generator
\* is seeded before the position is looked at
Salt_init ==
    /\ salt = NoneObj
    /\ salt_call = NoCall
    /\ \E position \in Salt_positions \cup {"middle"}, seed \in SaltSeeds,
          min_length \in 0..MaxSalt, max_length \in 0..MaxSalt :
        /\ min_length <= max_length
        /\ rng' = random_seed(seed)
        /\ IF position \in Salt_positions
           THEN /\ salt' = Salt(position, seed, min_length, max_length)
                /\ salt_call' = salt_call
           ELSE /\ salt' = salt
                /\ salt_call' = [NoCall EXCEPT !.op = "__init__",
                                               !.result = Raise("ValueError")]
    /\ UNCHANGED <<other, salt_ref, pipeVars, textVars, dataVars,
                 callVars, heapVars>>

\* other = Salt('front', seed, 1, 1), made by some other part of the process
other_Salt_init ==
    /\ other = NoneObj
    /\ \E seed \in OtherSeeds :
        /\ rng' = random_seed(seed)
        /\ other' = Salt("front", seed, 1, 1)
    /\ UNCHANGED <<salt, salt_call, salt_ref, pipeVars, textVars, dataVars,
                 callVars, heapVars>>

\* salt.encode(t)
salt_encode ==
    /\ salt # NoneObj
    /\ \E t \in SaltTexts :
        LET r == Salt_encode(salt.v, t, rng)
            call == [op |-> "encode", arg |-> t, of |-> NoText,
                     moved |-> rng # salt.v.random_state,
                     result |-> Ok(r.val)]
        IN /\ rng' = r.state
           /\ salt_call' = call
           /\ salt_ref' \in Remembered(call)
    /\ UNCHANGED <<salt, other, pipeVars, textVars, dataVars,
                 callVars, heapVars>>

\* salt.decode(t), of a text of the caller's or of what the last encode
\* returned
salt_decode ==
    /\ salt # NoneObj
    /\ \E t \in SaltTexts \cup {salt_call.result.val : op \in {salt_call.op} \cap {"encode"}} :
        LET r == Salt_decode(salt.v, t, rng)
            of == IF salt_call.op = "encode" /\ salt_call.result = Ok(t)
                  THEN Ok(salt_call.arg) ELSE NoText
            call == [op |-> "decode", arg |-> t, of |-> of,
                     moved |-> rng # salt.v.random_state,
                     result |-> Ok(r.val)]
        IN /\ rng' = r.state
           /\ salt_call' = call
           /\ salt_ref' \in Remembered(call)
    /\ UNCHANGED <<salt, other, pipeVars, textVars, dataVars,
                 callVars, heapVars>>

\* other.encode(t)
other_encode ==
    /\ other # NoneObj
    /\ \E t \in SaltTexts : rng' = Salt_encode(other.v, t, rng).state
    /\ UNCHANGED <<salt, other, salt_call, salt_ref, pipeVars, textVars, dataVars,
                 callVars, heapVars>>

\* random.random() called by some other part of the process
random_random ==
    /\ rng' = random_next(rng)
    /\ UNCHANGED <<salt, other, salt_call, salt_ref, pipeVars, textVars, dataVars,
                 callVars, heapVars>>

NextSalt ==
    \/ Salt_init
    \/ other_Salt_init
    \/ salt_encode
    \/ salt_decode
    \/ other_encode
    \/ random_random

InitSalt ==
    /\ NoData
    /\ NoSalt
    /\ NoCalls
    /\ NoHeap
    /\ cipher = NoneObj
    /\ text = <<>>
    /\ enc_text = NoText
    /\ dec_text = NoText
    /\ pc = "salt"
    /\ encoders = <<>>
    /\ encoder_names = <<>>
    /\ constructed = FALSE
    /\ last_op = "none"
    /\ last_arg = <<>>
    /\ raised = FALSE
    /\ pre_encoders = <<>>
    /\ pre_names = <<>>
    /\ undo_of = NoUndo

SpecSalt == InitSalt /\ [][NextSalt]_vars

\* C19: for every position, seed, 0 <= min_length <= max_length and text s,
\* decode of what encode(s) returned gives back s
C19_SaltRoundTrip ==
    (salt_call.op = "decode" /\ salt_call.of.exc = "none")
        => salt_call.result = Ok(salt_call.of.val)

\* a decode in 'between' mode that took salts of different lengths out of a
\* text of two characters, while the generator had been moved by others
C19_Witness ==
    /\ salt_call.op = "decode"
    /\ salt_call.of.exc = "none"
    /\ Len(salt_call.of.val) = 2
    /\ salt.v.position = "between"
    /\ Len(salt_call.arg) = 5
    /\ salt_call.moved
    /\ salt_call.result = Ok(salt_call.of.val)

\* C20: a call of encode or decode on an instance returns what an earlier
\* call of the same method with the same argument on that instance returned,
\* whatever calls on this instance, constructions of and calls on other
\* instances, and other draws from the shared generator came in between
C20_SaltStateless ==
    (salt_ref.op = salt_call.op /\ salt_ref.arg = salt_call.arg)
        => salt_ref.result = salt_call.result

\* an encode in 'between' mode made right after construction and the same
\* encode made again after another instance was built with another seed and
\* the generator was left elsewhere than in the state this instance saved
C20_Witness ==
    /\ salt_ref.op = "encode"
    /\ salt_call.op = "encode"
    /\ salt_ref.arg = salt_call.arg
    /\ ~salt_ref.moved
    /\ salt_call.moved
    /\ other # NoneObj
    /\ salt.v.position = "between"
    /\ salt.v.random_state # other.v.random_state
    /\ Len(salt_call.result.val) > Len(salt_call.arg)
    /\ salt_ref.result = salt_call.result

-----------------------------------------------------------------------------
(* StructuredDataEncoder on strings that read as another scalar *)

\* "42", "3.14", "True", "None", "False", "-7" and "0"
LiteralTexts ==
    { <<52, 50>>, <<51, 46, 49, 52>>, <<84, 114, 117, 101>>,
      <<78, 111, 110, 101>>, <<70, 97, 108, 115, 101>>, <<45, 55>>, <<48>> }

\* the int, float, bool or None that a literal text reads as
ReadAs(T) == eval(T).val

\* each literal text as a str, and the scalar it reads as
LookAlikes == {Str(T) : T \in LiteralTexts} \cup {ReadAs(T) : T \in LiteralTexts}

LeafEncoders ==
    SDEEncoders \cup {AtbashCipher(FALSE), CaesarCipher(-1, FALSE),
                      RailFenceCipher(3)}

InitLookAlike ==
    /\ data \in LookAlikes
    /\ enc_data = NoText
    /\ dec_data = NoText
    /\ NoSalt
    /\ NoCalls
    /\ NoHeap
    /\ cipher \in LeafEncoders
    /\ text = <<>>
    /\ enc_text = NoText
    /\ dec_text = NoText
    /\ pc = "sde_start"
    /\ encoders = <<>>
    /\ encoder_names = <<>>
    /\ constructed = FALSE
    /\ last_op = "none"
    /\ last_arg = <<>>
    /\ raised = FALSE
    /\ pre_encoders = <<>>
    /\ pre_names = <<>>
    /\ undo_of = NoUndo

SpecLookAlike == InitLookAlike /\ [][NextSDE]_vars

\* C21: a str whose content reads as an int, float, bool or None and the
\* scalar it reads as encode to different leaves, and each decodes back to
\* the value and type it was
C21_StringsKeptApart ==
    /\ (pc = "sde_encoded" /\ data.t = "str") =>
           /\ enc_data.exc = "none"
           /\ enc_data # StructuredDataEncoder_encode(cipher, ReadAs(data.v))
    /\ pc = "sde_encoded" => enc_data.exc = "none"
    /\ pc = "sde_decoded" => dec_data = Ok(data)

\* the str "42" came back as a str from a leaf other than the leaf of 42
C21_Witness ==
    /\ pc = "sde_decoded"
    /\ data = Str(<<52, 50>>)
    /\ dec_data = Ok(data)
    /\ enc_data # StructuredDataEncoder_encode(cipher, IntObj(42))
    /\ StructuredDataEncoder_decode(
           cipher, StructuredDataEncoder_encode(cipher, IntObj(42)).val)
         = Ok(IntObj(42))

-----------------------------------------------------------------------------
(* StructuredDataEncoder on values that hold a leaf it does not know *)

ContainerTypes == {"list", "tuple", "dict", "set", "frozenset"}

\* the types __get_str writes, of those the model holds
ScalarTypes == {"int", "float", "bool", "NoneType", "str"}

\* obj holds, at some depth, a leaf whose type is not in types
RECURSIVE HasLeafOutside(_, _)
HasLeafOutside(obj, types) ==
    CASE obj.t \in {"list", "tuple"} ->
             \E i \in 1..Len(obj.v) : HasLeafOutside(obj.v[i], types)
      [] obj.t = "dict" ->
             \E i \in 1..Len(obj.v) :
                 \/ HasLeafOutside(obj.v[i][1], types)
                 \/ HasLeafOutside(obj.v[i][2], types)
      [] obj.t \in {"set", "frozenset"} ->
             \E e \in obj.v : HasLeafOutside(e, types)
      [] OTHER -> obj.t \notin types

\* values with an instance of an unknown class at depth 0 to 3, in every
\* kind of container, as a dict key and as a dict value
Unrecognized ==
    { Object,
      List(<<IntObj(42), Object>>),
      List(<<Object, Str(<<97>>)>>),
      Tuple(<<List(<<Object>>)>>),
      Dict(<<<<Str(<<97>>), Object>>>>),
      Dict(<<<<Object, IntObj(42)>>>>),
      Dict(<<<<Str(<<97>>), IntObj(42)>>, <<IntObj(42), Tuple(<<Object>>)>>>>),
      Set({Object, IntObj(42)}),
      Frozenset({Tuple(<<Str(<<97>>), Object>>)}),
      List(<<Dict(<<<<Str(<<97>>), Set({Object})>>>>)>>),
      List(<<List(<<List(<<NoneObj, Object>>)>>)>>),
      Tuple(<<Frozenset({Object}), List(<<>>)>>) }

InitUnrecognized ==
    /\ data \in Unrecognized \cup Nested \cup Elements
    /\ enc_data = NoText
    /\ dec_data = NoText
    /\ NoSalt
    /\ NoCalls
    /\ NoHeap
    /\ cipher \in LeafEncoders
    /\ text = <<>>
    /\ enc_text = NoText
    /\ dec_text = NoText
    /\ pc = "sde_start"
    /\ encoders = <<>>
    /\ encoder_names = <<>>
    /\ constructed = FALSE
    /\ last_op = "none"
    /\ last_arg = <<>>
    /\ raised = FALSE
    /\ pre_encoders = <<>>
    /\ pre_names = <<>>
    /\ undo_of = NoUndo

SpecUnrecognized == InitUnrecognized /\ [][NextSDE]_vars

\* C22: encode raises, and returns nothing, when the value holds at any
\* depth a leaf that is neither a container nor a scalar it knows; decode
\* raises when the value holds a leaf that is neither a container nor a str
C22_UnknownLeafRaises ==
    /\ (pc = "sde_encoded" /\ HasLeafOutside(data, ScalarTypes)) =>
           enc_data = Raise("ValueError")
    /\ (pc = "sde_decoded_given" /\ HasLeafOutside(data, {"str"})) =>
           /\ dec_data.exc # "none"
           /\ dec_data = Raise(dec_data.exc)

\* encode raised on an unknown leaf three containers deep, behind a leaf it
\* knows
C22_Witness ==
    /\ pc = "sde_encoded"
    /\ data = List(<<List(<<List(<<NoneObj, Object>>)>>)>>)
    /\ enc_data = Raise("ValueError")

\* decode raised on a list whose second element is an int
C22_WitnessDecode ==
    /\ pc = "sde_decoded_given"
    /\ data = List(<<List(<<IntObj(42)>>), Tuple(<<Str(<<97>>), NoneObj>>)>>)
    /\ dec_data.exc # "none"

-----------------------------------------------------------------------------
(* StructuredDataEncoder.decode on leaves whose text is any expression *)

\* "True", "None", "42", "-7", "3.14", "str('a')", "str('')"
LiteralLeafTexts ==
    { <<84, 114, 117, 101>>, <<78, 111, 110, 101>>, <<52, 50>>, <<45, 55>>,
      <<51, 46, 49, 52>>, <<115, 116, 114, 40, 39, 97, 39, 41>>,
      <<115, 116, 114, 40, 39, 39, 41>> }

\* "4+4", "7+35", "a", "4+", "str('a'"
OtherLeafTexts ==
    { <<52, 43, 52>>, <<55, 43, 51, 53>>, <<97>>, <<52, 43>>,
      <<115, 116, 114, 40, 39, 97, 39>> }

\* T is a sentinel token, a numeric literal or a tagged string literal
IsLeafLiteral(T) ==
    \/ T \in {<<84, 114, 117, 101>>, <<70, 97, 108, 115, 101>>, <<78, 111, 110, 101>>}
    \/ IsIntLiteral(T) \/ IsFloatLiteral(T)
    \/ (Len(T) > 1 /\ T[1] = 45 /\ (IsIntLiteral(Tail(T)) \/ IsFloatLiteral(Tail(T))))
    \/ /\ Len(T) >= 7
       /\ SubSeq(T, 1, 5) = <<115, 116, 114, 40, 39>>
       /\ SubSeq(T, Len(T) - 1, Len(T)) = <<39, 41>>
       /\ \A i \in 6..(Len(T) - 2) : T[i] # 39

\* the caller holds the leaf that cipher makes of text
InitLeafText ==
    /\ cipher \in LeafEncoders
    /\ text \in LiteralLeafTexts \cup OtherLeafTexts
    /\ data = Str(Encode(cipher, text).val)
    /\ enc_data = NoText
    /\ dec_data = NoText
    /\ NoSalt
    /\ NoCalls
    /\ NoHeap
    /\ enc_text = NoText
    /\ dec_text = NoText
    /\ pc = "sde_start"
    /\ encoders = <<>>
    /\ encoder_names = <<>>
    /\ constructed = FALSE
    /\ last_op = "none"
    /\ last_arg = <<>>
    /\ raised = FALSE
    /\ pre_encoders = <<>>
    /\ pre_names = <<>>
    /\ undo_of = NoUndo

SpecLeafText == InitLeafText /\ [][NextSDE]_vars

\* C23: decode of a leaf whose decoded text is not a sentinel token, a
\* numeric literal or a quoted-string literal raises and returns no value
C23_OnlyLiteralsAccepted ==
    (pc = "sde_decoded_given" /\ ~IsLeafLiteral(text)) => dec_data.exc # "none"

-----------------------------------------------------------------------------
(* The empty text through every cipher, Salt and pipelines of them *)

\* one or more instances of each cipher class, in both modes where it has two
SimpleEncoders ==
    {CaesarCipher(k, m) : k \in {-1, 3, 97}, m \in BOOLEAN}
        \cup {AtbashCipher(m) : m \in BOOLEAN}
        \cup {AffineCipher(3, 5, m) : m \in BOOLEAN}
        \cup {VigenereCipher(<<75, 101, 121>>, m) : m \in BOOLEAN}
        \cup {RailFenceCipher(2), RailFenceCipher(3)}
        \cup {ColumnarTranspositionCipher(<<107, 101, 121>>, <<95>>)}

SaltEncoders ==
    {Salt(p, 42, 2, 2) : p \in Salt_positions}
        \cup {Salt(p, 1, 0, 1) : p \in Salt_positions}

\* pipelines of up to MaxPipe of these encoders, among them one that holds
\* a pipeline
EmptyTextPipelines ==
    {Pipeline(PipeSteps(es)) :
        es \in SeqsUpTo({CaesarCipher(3, FALSE), AtbashCipher(TRUE),
                         AffineCipher(3, 5, FALSE),
                         VigenereCipher(<<75, 101, 121>>, TRUE),
                         RailFenceCipher(2),
                         ColumnarTranspositionCipher(<<107, 101, 121>>, <<95>>),
                         Salt("between", 42, 2, 2), Salt("front", 1, 0, 1),
                         Pipeline(PipeSteps(<<Salt("end", 42, 2, 2),
                                              RailFenceCipher(3)>>))},
                        MaxPipe)}

InitEmptyText ==
    InitText(SimpleEncoders \cup SaltEncoders \cup EmptyTextPipelines,
             {<<>>, <<65>>})

SpecEmptyText == InitEmptyText /\ [][NextText]_vars

\* C24: encode('') and decode('') return '' and raise nothing, for every
\* cipher, for Salt in every position and for every pipeline of them
C24_EmptyTextIdentity ==
    text = <<>> =>
        /\ pc = "encoded" => enc_text = Ok(<<>>)
        /\ pc \in {"decoded", "decoded_given"} => dec_text = Ok(<<>>)

\* a pipeline that holds a Salt and a cipher gave '' back in both
\* directions, and lengthens the text "A"
C24_Witness ==
    /\ text = <<>>
    /\ pc = "decoded"
    /\ enc_text = Ok(<<>>)
    /\ dec_text = Ok(<<>>)
    /\ cipher = Pipeline(PipeSteps(<<Salt("between", 42, 2, 2), AtbashCipher(TRUE)>>))
    /\ Len(Encode(cipher, <<65>>).val) = 3

-----------------------------------------------------------------------------
(* The attributes encode and decode write on the instance: final_key of
   VigenereCipher, rf_arr of RailFenceCipher, txt_arr of
   ColumnarTranspositionCipher.  A call takes the attributes as the call
   before left them and leaves them for the next call. *)

MaxCallLen == 3      \* longest text of the repeated calls

\* (self.key * (len(text) // len(self.key) + 1)).upper()
VigenereCipher_repeated_key(key, t) ==
    [i \in 1..(Len(key) * ((Len(t) \div Len(key)) + 1)) |->
        Upper(key[((i - 1) % Len(key)) + 1])]

\* a loop that reads final_key as the call before left it, when it left one
VigenereCipher_final_key_stale(final_key, key, t) ==
    IF final_key = <<>> THEN VigenereCipher_repeated_key(key, t) ELSE final_key

\* what the loop of encode and decode reads in self.final_key: the value
\* assigned at the top of the same call, whatever the attribute held before
VigenereCipher_final_key_read(final_key, key, t) ==
    VigenereCipher_repeated_key(key, t)

\* the loop of encode or decode over the text with final_key as read; a
\* final_key shorter than the text ends in IndexError
VigenereCipher_loop(final_key, alpha_only, op, t) ==
    LET n == IF Len(final_key) < Len(t) THEN Len(final_key) ELSE Len(t)
        chars == [i \in 1..n |->
                     IF op = "encode"
                     THEN VigenereCipher_encode_char(final_key, alpha_only, t, i - 1)
                     ELSE VigenereCipher_decode_char(final_key, alpha_only, t, i - 1)]
    IN  IF Built(chars).exc # "none" THEN Built(chars)
        ELSE IF n < Len(t) THEN Raise("IndexError")
        ELSE Ok(chars)

\* VigenereCipher.encode or decode on an instance whose final_key is
\* final_key: the result and the final_key it leaves
VigenereCipher_call(self, final_key, op, t) ==
    IF t = <<>> THEN [result |-> Ok(t), attrs |-> final_key]
    ELSE IF ~any_printable(t) THEN [result |-> Raise("ValueError"), attrs |-> final_key]
    ELSE [result |-> VigenereCipher_loop(
                         VigenereCipher_final_key_read(final_key, self.key, t),
                         self.alpha_only, op, t),
          attrs |-> VigenereCipher_repeated_key(self.key, t)]

\* RailFenceCipher.encode or decode: rf_arr is assigned a new array before
\* it is read, and is left as the call filled it
RailFenceCipher_call(self, rf_arr, op, t) ==
    IF t = <<>> \/ ~any_printable(t)
    THEN [result |-> IF op = "encode" THEN RailFenceCipher_encode(self.rails, t)
                     ELSE RailFenceCipher_decode(self.rails, t),
          attrs |-> rf_arr]
    ELSE IF op = "encode"
    THEN [result |-> RailFenceCipher_encode(self.rails, t),
          attrs |-> zig_zag_fill(np_zeros(self.rails, Len(t)), self.rails, Len(t),
                                 t, 0, 0, TRUE)]
    ELSE [result |-> RailFenceCipher_decode(self.rails, t),
          attrs |-> decode_pass(zig_zag_fill(np_zeros(self.rails, Len(t)),
                                             self.rails, Len(t),
                                             [k \in 1..Len(t) |-> 42], 0, 0, TRUE),
                                self.rails, Len(t), t, 0, 0)]

\* ColumnarTranspositionCipher.encode or decode: txt_arr is assigned a new
\* array before it is read; the model keeps its shape and the text it was
\* filled from
ColumnarTranspositionCipher_call(self, txt_arr, op, t) ==
    LET result == IF op = "encode"
                  THEN ColumnarTranspositionCipher_encode(self.key, self.filler, t)
                  ELSE ColumnarTranspositionCipher_decode(self.key, self.filler, t)
    IN  IF t = <<>> \/ ~any_printable(t) \/ Len(self.key) = 0
        THEN [result |-> result, attrs |-> txt_arr]
        ELSE [result |-> result,
              attrs |-> <<IF op = "encode" THEN ceil_div(Len(t), Len(self.key))
                          ELSE Len(t) \div Len(self.key),
                          Len(self.key), t>>]

\* the attributes of a new instance: final_key = "", rf_arr = None,
\* txt_arr = None, and for a Pipeline those of its steps' encoders
RECURSIVE NewAttrs(_)
NewAttrs(obj) ==
    IF obj.t = "Pipeline"
    THEN [i \in 1..Len(obj.v.encoders) |-> NewAttrs(obj.v.encoders[i].v[1])]
    ELSE <<>>

RECURSIVE Call(_, _, _, _), Pipeline_call(_, _, _, _, _)

\* obj.encode(t) or obj.decode(t) on an instance whose attributes are a
Call(obj, a, op, t) ==
    CASE obj.t = "VigenereCipher" -> VigenereCipher_call(obj.v, a, op, t)
      [] obj.t = "RailFenceCipher" -> RailFenceCipher_call(obj.v, a, op, t)
      [] obj.t = "ColumnarTranspositionCipher" ->
             ColumnarTranspositionCipher_call(obj.v, a, op, t)
      [] obj.t = "Pipeline" ->
             Pipeline_call(obj.v.encoders, a, op, t,
                           IF op = "encode" THEN 1 ELSE Len(obj.v.encoders))
      [] OTHER -> [result |-> IF op = "encode" THEN Encode(obj, t) ELSE Decode(obj, t),
                   attrs |-> a]

\* the loop of Pipeline.encode from step k upwards, or of Pipeline.decode
\* from step k downwards, over the steps' encoders and their attributes
Pipeline_call(steps, a, op, t, k) ==
    IF k < 1 \/ k > Len(steps) THEN [result |-> Ok(t), attrs |-> a]
    ELSE LET r == Call(steps[k].v[1], a[k], op, t)
             a2 == [a EXCEPT ![k] = r.attrs]
         IN  IF r.result.exc # "none" THEN [result |-> r.result, attrs |-> a2]
             ELSE Pipeline_call(steps, a2, op, r.result.val,
                                IF op = "encode" THEN k + 1 ELSE k - 1)

\* "AzAz..."
CallLongest == [i \in 1..MaxCallLen |-> IF i % 2 = 1 THEN 65 ELSE 122]

\* the texts of the calls: "", "A", "Az", "AzA", ... and a line feed
CallTexts == {SubSeq(CallLongest, 1, n) : n \in 0..MaxCallLen} \cup {<<10>>}

CallCiphers ==
    { CaesarCipher(3, FALSE), CaesarCipher(-1, TRUE), AtbashCipher(FALSE),
      AffineCipher(3, 5, FALSE),
      VigenereCipher(<<75, 101>>, FALSE), VigenereCipher(<<75, 101>>, TRUE),
      VigenereCipher(<<75, 49>>, TRUE), VigenereCipher(<<107>>, FALSE),
      RailFenceCipher(2), RailFenceCipher(3),
      ColumnarTranspositionCipher(<<98, 97>>, <<95>>),
      ColumnarTranspositionCipher(<<97, 49>>, <<95>>),
      Pipeline(PipeSteps(<<VigenereCipher(<<75, 101>>, FALSE), RailFenceCipher(2)>>)),
      Pipeline(PipeSteps(<<ColumnarTranspositionCipher(<<98, 97>>, <<95>>),
                           VigenereCipher(<<75, 101>>, TRUE)>>)),
      Pipeline(PipeSteps(<<RailFenceCipher(3),
                           Pipeline(PipeSteps(<<VigenereCipher(<<107>>, FALSE)>>))>>)) }

\* the call kept for comparison after a call of op on t that gave result:
\* the one kept before, marked when this call is another one, or this call
KeptCalls(op, t, result) ==
    IF ref_call = NoRef
    THEN {NoRef, [op |-> op, arg |-> t, result |-> result, between |-> FALSE]}
    ELSE {[ref_call EXCEPT !.between = @ \/ op # ref_call.op \/ t # ref_call.arg]}

\* cipher.encode(t), on the instance as the calls before left it
cipher_encode ==
    /\ pc \in {"constructed", "encode", "decode"}
    /\ \E t \in CallTexts :
        LET r == Call(cipher, attrs, "encode", t)
        IN  /\ text' = t
            /\ enc_text' = r.result
            /\ dec_text' = NoText
            /\ attrs' = r.attrs
            /\ ref_call' \in KeptCalls("encode", t, r.result)
    /\ pc' = "encode"
    /\ UNCHANGED <<cipher, pipeVars, dataVars, saltVars, heapVars>>

\* cipher.decode(t)
cipher_decode ==
    /\ pc \in {"constructed", "encode", "decode"}
    /\ \E t \in CallTexts :
        LET r == Call(cipher, attrs, "decode", t)
        IN  /\ text' = t
            /\ dec_text' = r.result
            /\ enc_text' = NoText
            /\ attrs' = r.attrs
            /\ ref_call' \in KeptCalls("decode", t, r.result)
    /\ pc' = "decode"
    /\ UNCHANGED <<cipher, pipeVars, dataVars, saltVars, heapVars>>

NextCalls == cipher_encode \/ cipher_decode

InitCalls ==
    /\ NoData
    /\ NoSalt
    /\ cipher \in CallCiphers
    /\ attrs = NewAttrs(cipher)
    /\ ref_call = NoRef
    /\ NoHeap
    /\ text = <<>>
    /\ enc_text = NoText
    /\ dec_text = NoText
    /\ pc = "constructed"
    /\ encoders = <<>>
    /\ encoder_names = <<>>
    /\ constructed = FALSE
    /\ last_op = "none"
    /\ last_arg = <<>>
    /\ raised = FALSE
    /\ pre_encoders = <<>>
    /\ pre_names = <<>>
    /\ undo_of = NoUndo

SpecCalls == InitCalls /\ [][NextCalls]_vars

\* what the last call on cipher returned or raised
LastResult == IF pc = "encode" THEN enc_text ELSE dec_text

\* C25: a call of encode or decode on a cipher or pipeline gives what an
\* earlier call of the same method with the same argument on the same
\* instance gave, whatever calls came in between
C25_NoPerCallState ==
    (ref_call.op = pc /\ ref_call.arg = text) => ref_call.result = LastResult

\* a VigenereCipher encoded a text of three characters, then other texts,
\* the last of them shorter, and then the first text again with the same
\* result
C25_Witness ==
    /\ cipher = VigenereCipher(<<75, 101>>, FALSE)
    /\ pc = "encode"
    /\ ref_call.op = "encode"
    /\ ref_call.arg = text
    /\ ref_call.between
    /\ Len(text) = 3
    /\ ref_call.result = enc_text
    /\ enc_text.exc = "none"
    /\ Len(attrs) = 4

-----------------------------------------------------------------------------
(* CaesarCipher of text/substitution.py, the older variant: its key and the
   flag __is_key_default are attributes that encode and decode write *)

MaxLegacyLen == 2    \* longest text given to the older CaesarCipher

LegacyCaesarCipher(key, alpha_only) ==
    [t |-> "text.CaesarCipher", v |-> [key |-> key, alpha_only |-> alpha_only]]

\* the attributes __init__ leaves
LegacyCaesarCipher_init(self) == [key |-> self.key, is_key_default |-> TRUE]

LegacyCaesarCipher_encode_char(key, alpha_only, ascii_val) ==
    IF alpha_only
    THEN LET char_value == ascii_val + key
         IN  IF 65 <= ascii_val /\ ascii_val <= 90
             THEN (IF char_value <= 90 THEN Chr(char_value) ELSE Chr(char_value - 26))
             ELSE IF 97 <= ascii_val /\ ascii_val <= 122
             THEN (IF char_value <= 122 THEN Chr(char_value) ELSE Chr(char_value - 26))
             ELSE ascii_val
    ELSE Chr((ascii_val + key) % 128)

\* encode on an instance with attributes a: the result and the attributes
\* it leaves; the key changes sign only when __is_key_default is False
LegacyCaesarCipher_encode(alpha_only, a, t) ==
    IF \E i \in 1..Len(t) : t[i] > 127
    THEN [result |-> Raise("ValueError"), attrs |-> a]
    ELSE LET enc == Built([i \in 1..Len(t) |->
                              LegacyCaesarCipher_encode_char(a.key, alpha_only, t[i])])
         IN  IF enc.exc # "none" THEN [result |-> enc, attrs |-> a]
             ELSE IF ~a.is_key_default
             THEN [result |-> enc,
                   attrs |-> [key |-> 0 - a.key, is_key_default |-> TRUE]]
             ELSE [result |-> enc, attrs |-> a]

LegacyCaesarCipher_decode_char(key, ascii_val) ==
    LET char_val == ascii_val - key
    IN  IF 65 <= ascii_val /\ ascii_val <= 90
        THEN (IF char_val >= 65 THEN Chr(char_val) ELSE Chr(char_val + 26))
        ELSE IF 97 <= ascii_val /\ ascii_val <= 122
        THEN (IF char_val >= 97 THEN Chr(char_val) ELSE Chr(char_val + 26))
        ELSE ascii_val

\* decode: in full mode it turns the key and the flag over and calls encode
LegacyCaesarCipher_decode(alpha_only, a, t) ==
    IF \E i \in 1..Len(t) : t[i] > 127
    THEN [result |-> Raise("ValueError"), attrs |-> a]
    ELSE IF alpha_only
    THEN [result |-> Built([i \in 1..Len(t) |->
                               LegacyCaesarCipher_decode_char(a.key, t[i])]),
          attrs |-> a]
    ELSE LegacyCaesarCipher_encode(
             alpha_only, [key |-> 0 - a.key, is_key_default |-> ~a.is_key_default], t)

\* "A", "z", DEL and a character above 127
LegacyChars == {65, 122, 127, 200}

LegacyKeys == {3, -1, 130}

\* the call before this one, for the call of op on t that follows it
Previous == [op |-> pc, arg |-> text, result |-> IF pc = "encode" THEN enc_text ELSE dec_text,
             between |-> FALSE]

legacy_encode ==
    /\ pc \in {"constructed", "encode", "decode"}
    /\ \E t \in SeqsUpTo(LegacyChars, MaxLegacyLen) :
        LET r == LegacyCaesarCipher_encode(cipher.v.alpha_only, attrs, t)
        IN  /\ text' = t
            /\ enc_text' = r.result
            /\ dec_text' = NoText
            /\ attrs' = r.attrs
    /\ ref_call' = Previous
    /\ pc' = "encode"
    /\ UNCHANGED <<cipher, pipeVars, dataVars, saltVars, heapVars>>

legacy_decode ==
    /\ pc \in {"constructed", "encode", "decode"}
    /\ \E t \in SeqsUpTo(LegacyChars, MaxLegacyLen) :
        LET r == LegacyCaesarCipher_decode(cipher.v.alpha_only, attrs, t)
        IN  /\ text' = t
            /\ dec_text' = r.result
            /\ enc_text' = NoText
            /\ attrs' = r.attrs
    /\ ref_call' = Previous
    /\ pc' = "decode"
    /\ UNCHANGED <<cipher, pipeVars, dataVars, saltVars, heapVars>>

NextLegacy == legacy_encode \/ legacy_decode

InitLegacy ==
    /\ NoData
    /\ NoSalt
    /\ cipher \in {LegacyCaesarCipher(k, m) : k \in LegacyKeys, m \in BOOLEAN}
    /\ attrs = LegacyCaesarCipher_init(cipher.v)
    /\ ref_call = NoRef
    /\ NoHeap
    /\ text = <<>>
    /\ enc_text = NoText
    /\ dec_text = NoText
    /\ pc = "constructed"
    /\ encoders = <<>>
    /\ encoder_names = <<>>
    /\ constructed = FALSE
    /\ last_op = "none"
    /\ last_arg = <<>>
    /\ raised = FALSE
    /\ pre_encoders = <<>>
    /\ pre_names = <<>>
    /\ undo_of = NoUndo

SpecLegacy == InitLegacy /\ [][NextLegacy]_vars

\* t with k added to each character modulo 128
ShiftedBy(t, k) == [i \in 1..Len(t) |-> (t[i] + k) % 128]

\* C26: in full mode the key changes sign after each call, so that of two
\* encode calls in a row on texts without a character above 127 the first
\* applies the shift k and the second the shift -k
C26_EncodeAlternates ==
    (/\ ~cipher.v.alpha_only
     /\ pc = "encode" /\ enc_text.exc = "none"
     /\ ref_call.op = "encode" /\ ref_call.result.exc = "none"
     /\ ref_call.result.val = ShiftedBy(ref_call.arg, cipher.v.key))
        => enc_text.val = ShiftedBy(text, 0 - cipher.v.key)

\* what the code does: the key of an instance never changes between calls
LegacyKeyRestored ==
    /\ attrs.key = cipher.v.key
    /\ attrs.is_key_default
    /\ (pc = "encode" /\ enc_text.exc = "none" /\ ~cipher.v.alpha_only)
           => enc_text.val = ShiftedBy(text, cipher.v.key)
    /\ (pc = "decode" /\ dec_text.exc = "none" /\ ~cipher.v.alpha_only)
           => dec_text.val = ShiftedBy(text, 0 - cipher.v.key)

-----------------------------------------------------------------------------
(* The shape of what StructuredDataEncoder.encode returns *)

\* obj can be a dict key or a set element
RECURSIVE Hashable(_)
Hashable(obj) ==
    CASE obj.t \in {"list", "dict", "set"} -> FALSE
      [] obj.t = "tuple" -> \A i \in 1..Len(obj.v) : Hashable(obj.v[i])
      [] obj.t = "frozenset" -> \A e \in obj.v : Hashable(e)
      [] OTHER -> TRUE

\* enc has the container kinds of obj at every level, the elements of its
\* lists and tuples stand where those of obj stand, its dict keys are
\* hashable and a str stands where obj has a leaf
RECURSIVE SameShape(_, _)
SameShape(obj, enc) ==
    CASE obj.t \in {"list", "tuple"} ->
             /\ enc.t = obj.t
             /\ Len(enc.v) = Len(obj.v)
             /\ \A i \in 1..Len(obj.v) : SameShape(obj.v[i], enc.v[i])
      [] obj.t = "dict" ->
             /\ enc.t = "dict"
             /\ \A j \in 1..Len(enc.v) :
                    /\ Hashable(enc.v[j][1])
                    /\ \E i \in 1..Len(obj.v) :
                           /\ SameShape(obj.v[i][1], enc.v[j][1])
                           /\ SameShape(obj.v[i][2], enc.v[j][2])
             /\ \A i \in 1..Len(obj.v) :
                    \E j \in 1..Len(enc.v) :
                        SameShape(obj.v[i][1], enc.v[j][1])
      [] obj.t \in {"set", "frozenset"} ->
             /\ enc.t = obj.t
             /\ \A f \in enc.v :
                    Hashable(f) /\ \E e \in obj.v : SameShape(e, f)
             /\ \A e \in obj.v : \E f \in enc.v : SameShape(e, f)
      [] OTHER -> enc.t = "str"

\* C27: what encode returns for a supported value has the container kind
\* of the value at every nesting level, lists and tuples keep their length
\* and the order of their elements, the encoded dict keys are hashable and
\* every scalar leaf, dict keys among them, has become a str
C27_EncodePreservesShape ==
    (pc = "sde_encoded" /\ Supported(data)) =>
        /\ enc_data.exc = "none"
        /\ SameShape(data, enc_data.val)

\* a dict whose key is a tuple and whose value is a frozenset was encoded
C27_Witness ==
    /\ pc = "sde_encoded"
    /\ data = Dict(<<<<Tuple(<<IntObj(42), Str(<<97>>)>>),
                      Frozenset({Bool(FALSE)})>>>>)
    /\ enc_data.exc = "none"
    /\ enc_data.val.t = "dict"
    /\ enc_data.val.v[1][1].t = "tuple"
    /\ Len(enc_data.val.v[1][1].v) = 2
    /\ enc_data.val.v[1][1].v[2].t = "str"

-----------------------------------------------------------------------------
(* The length and the characters of what ColumnarTranspositionCipher.encode
   returns *)

\* how often the character c stands in t
Occurrences(t, c) == Cardinality({i \in 1..Len(t) : t[i] = c})

\* u holds the characters of t, each as often as t does
IsPermutation(t, u) ==
    /\ Len(t) = Len(u)
    /\ \A i \in 1..Len(t) : Occurrences(t, t[i]) = Occurrences(u, t[i])

\* t with the filler after it up to the next multiple of cols characters
Padded(t, cols, filler) ==
    t \o [i \in 1..(ceil_div(Len(t), cols) * cols - Len(t)) |-> filler[1]]

\* C28: for every key of unique characters, encode returns a text of
\* ceil(len(text)/len(key)) * len(key) characters that is a permutation of
\* the text padded with the filler: every column is emitted exactly once
C28_ColumnarEmitsEveryColumn ==
    (/\ ColumnarTranspositionCipher_is_unique(cipher.v.key)
     /\ pc = "encoded"
     /\ enc_text.exc = "none")
        => /\ Len(enc_text.val)
                 = ceil_div(Len(text), Len(cipher.v.key)) * Len(cipher.v.key)
           /\ IsPermutation(Padded(text, Len(cipher.v.key), cipher.v.filler),
                            enc_text.val)

\* what the code does: the columns under the letters of the key are
\* emitted, each once, and no other column
ColumnarEmitsLetterColumns ==
    (pc = "encoded" /\ enc_text.exc = "none")
        => LET key == cipher.v.key
               rows == ceil_div(Len(text), Len(key))
               padded == Padded(text, Len(key), cipher.v.filler)
               letters == {j \in 1..Len(key) : 65 <= key[j] /\ key[j] <= 90}
           IN  /\ Len(enc_text.val) = rows * Cardinality(letters)
               /\ \A c \in ColumnarChars \cup {cipher.v.filler[1]} :
                      Occurrences(enc_text.val, c)
                          = Cardinality({i \in 1..Len(padded) :
                                /\ padded[i] = c
                                /\ ((i - 1) % Len(key)) + 1 \in letters})

-----------------------------------------------------------------------------
(* The ciphers whose output the next step of a pipeline accepts: the
   substitution ciphers over the whole printable range and RailFenceCipher *)

\* " ", "*", "A" and "~"
ClosureChars == {32, 42, 65, 126}

ClosureCiphers ==
    {CaesarCipher(k, FALSE) : k \in {-97, -1, 0, 3, 95, 200}}
        \cup {AtbashCipher(FALSE)}
        \cup {AffineCipher(a, b, FALSE) : a \in {1, 2, 94, 127}, b \in {-100, 0, 200}}
        \cup {VigenereCipher(k, FALSE) :
                 k \in {<<75>>, <<107, 126>>, <<32>>, <<49, 10>>}}
        \cup {RailFenceCipher(2), RailFenceCipher(3)}

InitClosure == InitText(ClosureCiphers, SeqsUpTo(ClosureChars, MaxLen))

SpecClosure == InitClosure /\ [][NextText]_vars

\* what a step returned for the text given stays in the domain: the
\* characters of the text in another order for a RailFenceCipher, as many
\* printable characters as the text has for the others
Closed(obj, given, returned) ==
    /\ returned.exc = "none"
    /\ IF obj.t = "RailFenceCipher"
       THEN IsPermutation(given, returned.val)
       ELSE Len(returned.val) = Len(given) /\ Printable(returned.val)

\* C29: for every text over 32..126, encode and decode of Caesar, Atbash,
\* Affine and Vigenere over the whole range return a text of the same
\* length with every character in 32..126, and encode and decode of
\* RailFence return a permutation of the characters of the text
C29_DomainClosure ==
    Printable(text) =>
        /\ pc = "encoded" => Closed(cipher, text, enc_text)
        /\ pc = "decoded_given" => Closed(cipher, text, dec_text)
        /\ pc = "decoded" => Closed(cipher, enc_text.val, dec_text)

\* an AffineCipher took "~ " to another text, a product above the range
\* on the way
C29_Witness ==
    /\ pc = "encoded"
    /\ cipher = AffineCipher(94, 200, FALSE)
    /\ text = <<126, 32>>
    /\ enc_text.exc = "none"
    /\ enc_text.val # text
    /\ Printable(enc_text.val)

\* a RailFenceCipher decoded a text it was given into another order
C29_WitnessRailFence ==
    /\ pc = "decoded_given"
    /\ cipher.t = "RailFenceCipher"
    /\ dec_text.exc = "none"
    /\ dec_text.val # text
    /\ IsPermutation(text, dec_text.val)

-----------------------------------------------------------------------------
(* A caller that makes one list of steps, builds the Pipelines p and q from
   it and then adds and removes steps.  __init__ binds self.encoders to the
   list it is given, add_encoders extends the list self.encoders refers to
   in place, and remove_encoders binds self.encoders to a list of its own
   making; lists holds the caller's list under "steps" and, under the name
   of each Pipeline, the list its remove_encoders made last *)

MaxShared == 2       \* longest list of steps of that caller

PipelineNames == {"p", "q"}

NotBuilt == [built |-> FALSE, encoders |-> "steps", encoder_names |-> <<>>]

SharedSteps ==
    { Tuple(<<CaesarCipher(3, FALSE), Str(<<97>>)>>),
      Tuple(<<AtbashCipher(FALSE), Str(<<98>>)>>) }

\* the lists given to add_encoders: one step, well formed or without a name
SharedStepArgs ==
    {<<s>> : s \in SharedSteps} \cup {<<Tuple(<<CaesarCipher(3, FALSE)>>)>>}

\* the lists given to remove_encoders
SharedNameArgs == {<<Str(<<97>>)>>, <<Str(<<98>>)>>, <<IntObj(1)>>}

\* p = Pipeline(steps)
shared_init(p) ==
    /\ ~pipelines[p].built
    /\ IF is_valid(lists["steps"])
       THEN LET u == update_encoder_names(lists["steps"])
            IN  pipelines' =
                  [pipelines EXCEPT ![p] =
                      IF u.exc = "none"
                      THEN [built |-> TRUE, encoders |-> "steps",
                            encoder_names |-> u.val]
                      ELSE NotBuilt]
       ELSE UNCHANGED pipelines
    /\ UNCHANGED <<lists, passed, pipeVars, textVars, dataVars, saltVars,
                 callVars>>

\* p.add_encoders(arg)
shared_add_encoders(p, arg) ==
    /\ pipelines[p].built
    /\ Len(lists[pipelines[p].encoders]) + Len(arg) <= MaxShared
    /\ IF is_valid(arg)
       THEN LET id == pipelines[p].encoders
                extended == lists[id] \o arg
            IN  /\ lists' = [lists EXCEPT ![id] = extended]
                /\ pipelines' =
                     [pipelines EXCEPT ![p].encoder_names =
                         update_encoder_names(extended).val]
       ELSE UNCHANGED <<lists, pipelines>>
    /\ UNCHANGED <<passed, pipeVars, textVars, dataVars, saltVars,
                 callVars>>

\* p.remove_encoders(arg)
shared_remove_encoders(p, arg) ==
    /\ pipelines[p].built
    /\ IF \E i \in 1..Len(arg) :
              arg[i].t # "str" \/ ~PyIn(arg[i], pipelines[p].encoder_names)
       THEN UNCHANGED <<lists, pipelines>>
       ELSE LET temp_encoders == Kept(lists[pipelines[p].encoders], arg)
            IN  /\ lists' = [lists EXCEPT ![p] = temp_encoders]
                /\ pipelines' =
                     [pipelines EXCEPT ![p] =
                         [built |-> TRUE, encoders |-> p,
                          encoder_names |->
                              update_encoder_names(temp_encoders).val]]
    /\ UNCHANGED <<passed, pipeVars, textVars, dataVars, saltVars,
                 callVars>>

NextShared ==
    \/ \E p \in PipelineNames : shared_init(p)
    \/ \E p \in PipelineNames, arg \in SharedStepArgs : shared_add_encoders(p, arg)
    \/ \E p \in PipelineNames, arg \in SharedNameArgs :
           shared_remove_encoders(p, arg)

InitShared ==
    /\ passed \in SeqsUpTo(SharedSteps, 1)
    /\ lists = [id \in PipelineNames \cup {"steps"} |->
                   IF id = "steps" THEN passed ELSE <<>>]
    /\ pipelines = [p \in PipelineNames |-> NotBuilt]
    /\ NoData
    /\ NoSalt
    /\ NoCalls
    /\ cipher = NoneObj
    /\ text = <<>>
    /\ enc_text = NoText
    /\ dec_text = NoText
    /\ pc = "start"
    /\ encoders = <<>>
    /\ encoder_names = <<>>
    /\ constructed = FALSE
    /\ last_op = "none"
    /\ last_arg = <<>>
    /\ raised = FALSE
    /\ pre_encoders = <<>>
    /\ pre_names = <<>>
    /\ undo_of = NoUndo

SpecShared == InitShared /\ [][NextShared]_vars

\* C30: add_encoders and remove_encoders of a Pipeline leave the list that
\* was passed to its constructor as the caller made it, and leave the steps
\* of every other Pipeline alone, so that the encoder_names of every
\* Pipeline are the names of the steps its encoders holds
C30_PipelinesIsolated ==
    /\ lists["steps"] = passed
    /\ \A p \in PipelineNames :
           pipelines[p].built =>
               pipelines[p].encoder_names
                   = NamesOf(lists[pipelines[p].encoders])

\* what the code does: a Pipeline is on its own once remove_encoders has
\* given it a list of its own; until then its steps are the caller's list,
\* and its encoder_names fall behind when that list has been extended
OwnListAfterRemove ==
    \A p \in PipelineNames :
        (/\ pipelines[p].built
         /\ pipelines[p].encoder_names # NamesOf(lists[pipelines[p].encoders]))
            => /\ pipelines[p].encoders = "steps"
               /\ lists["steps"] # passed

====
